---- MODULE Spec2Model ----
(***************************************************************************)
(* jenkins-job-manager: the reconciliation core.                           *)
(*                                                                         *)
(*   xml_change.py  XmlChange (canonicalizing before/after record),        *)
(*                  XmlChangeDefaultDict (auto-vivifying Change Set)       *)
(*   core.py        NameRegexFilter, JenkinsJobManager (gather, read_views,*)
(*                  read_jobs, generate_jjb_xml, detected_changes,         *)
(*                  apply_plan)                                            *)
(*   connect_config.py  JenkinsConnectConfig                               *)
(*                                                                         *)
(* Strings.  A Python str that holds XML is a sequence of units: a unit is *)
(* a whole tag ("<a>", "</a>", "<a/>"), the XML declaration, or a single   *)
(* character of character data.  A resource name or a glob is a sequence   *)
(* of single characters.  A Python value that may be None is a record      *)
(* [isNone, s].                                                            *)
(***************************************************************************)
EXTENDS Integers, Sequences, FiniteSets, TLC

VARIABLES
    \* ---- the orchestrator (core.py, JenkinsJobManager.__slots__) ----
    config,             \* JenkinsConnectConfig instance
    jobs,               \* XmlChangeDefaultDict: records in insertion order
    views,              \* XmlChangeDefaultDict: records in insertion order
    _jobs_filter_func,  \* NameRegexFilter
    \* ---- the external collaborators (jenkins server, jjb generator) ----
    env_views,          \* jenkins.get_views() with each view's config
    env_jobs,           \* jenkins.get_all_jobs() with each job's config
    env_view_data,      \* generated desired views, in generation order
    env_job_data,       \* generated desired jobs, in generation order
    \* ---- what the last operation did ----
    fetched,            \* get_view_config / get_job_config calls of the last gather
    calls,              \* create/reconfig/delete calls of the last apply_plan
    result,             \* operation, outcome and returned value of the last call
    gathers,            \* how many times gather() has run on this orchestrator
    \* ---- a document under canonicalization (xml_normalize applied repeatedly) ----
    nx_tree,            \* the document, as the tree its text denotes
    ny,                 \* xml_normalize(x), xml_normalize(xml_normalize(x)), ...
    perm_out,           \* xml_normalize of a sibling-permuted copy of the document
    \* ---- bookkeeping for the records' setters ----
    assigned            \* per namespace, key and field: the value a direct assignment last stored

vars == <<config, jobs, views, _jobs_filter_func, env_views, env_jobs,
          env_view_data, env_job_data, fetched, calls, result, gathers,
          nx_tree, ny, perm_out, assigned>>

env_vars == <<env_views, env_jobs, env_view_data, env_job_data>>

norm_vars == <<nx_tree, ny, perm_out>>

(***************************************************************************)
(* Python values                                                           *)
(***************************************************************************)
NoneV == [isNone |-> TRUE, s |-> <<>>]

Str(s) == [isNone |-> FALSE, s |-> s]

\* Python truthiness of an Optional[str]: None and "" are falsy.
Truthy(v) == ~v.isNone /\ v.s # <<>>

RECURSIVE Concat(_)
Concat(seqs) == IF seqs = <<>> THEN <<>> ELSE Head(seqs) \o Concat(Tail(seqs))

Last(s) == s[Len(s)]

Front(s) == SubSeq(s, 1, Len(s) - 1)

(***************************************************************************)
(* XML text: units                                                         *)
(***************************************************************************)
ElementNames == {"project", "view", "a", "b", "description"}

XmlDecl == "<?xml version=\"1.0\" ?>"

\* The tags of every element name, built once.
OpenTags == [n \in ElementNames |-> "<" \o n \o ">"]

CloseTags == [n \in ElementNames |-> "</" \o n \o ">"]

EmptyTags == [n \in ElementNames |-> "<" \o n \o "/>"]

\* The element name of every tag.
TagNames ==
    [u \in UNION {{OpenTags[n], CloseTags[n], EmptyTags[n]} : n \in ElementNames} |->
        CHOOSE n \in ElementNames : u \in {OpenTags[n], CloseTags[n], EmptyTags[n]}]

\* The character reference of a carriage return, as Jenkins writes one.
CRRef == "&#13;"

\* str.strip() removes these from both ends.
Whitespace == {" ", "\n", "\r", "\t"}

(***************************************************************************)
(* The documents that are assigned to records: what a caller assigns, what *)
(* the server holds, what the generator produces.                          *)
(***************************************************************************)
RawEmptyProject == Str(<<OpenTags["project"], CloseTags["project"]>>)

RawSelfClosedProject == Str(<<EmptyTags["project"], "\n">>)

RawProjectWithCR ==
    Str(<<OpenTags["project"], OpenTags["a"], "x", CRRef, "y", CloseTags["a"],
          CloseTags["project"]>>)

\* The same document with a line feed where the other has &#13;.
RawProjectWithLF ==
    Str(<<OpenTags["project"], OpenTags["a"], "x", "\n", "y", CloseTags["a"],
          CloseTags["project"]>>)

RawUnclosed == Str(<<OpenTags["project"]>>)

RecVals ==
    {NoneV, Str(<<>>), RawUnclosed, RawEmptyProject, RawSelfClosedProject,
     RawProjectWithCR, RawProjectWithLF}

RawProjectBA ==
    Str(<<OpenTags["project"], EmptyTags["b"], OpenTags["a"], "x", CloseTags["a"],
          CloseTags["project"]>>)

RawProjectAB ==
    Str(<<OpenTags["project"], "\n", " ", OpenTags["a"], "x", CloseTags["a"], "\n", " ",
          EmptyTags["b"], "\n", CloseTags["project"]>>)

\* What the server holds and what the generator produces: the same two
\* documents, each written differently on the two sides.
RemoteDocs == {RawEmptyProject, RawProjectBA}

DesiredDocs == {RawSelfClosedProject, RawProjectAB}

\* The marker Jenkins Job Builder puts into a description, as the document
\* holds it.
ManagedMarker == "&lt;!-- Managed by Jenkins Job Builder --&gt;"

\* Job documents without a description, with an empty one, and with
\* descriptions of "key: value" lines.
MdDocs ==
    {RawEmptyProject,
     Str(<<OpenTags["project"], EmptyTags["description"], CloseTags["project"]>>),
     Str(<<OpenTags["project"], OpenTags["description"], ManagedMarker, "\n",
           "team", ":", " ", "x", CloseTags["description"], CloseTags["project"]>>),
     Str(<<OpenTags["project"], EmptyTags["a"], OpenTags["description"],
           "team", ":", " ", "x", "\n", "note", "\n", " ", "Tier", ":", "x", "\n",
           "team", ":", " ", "z", " ", "z",
           CloseTags["description"], CloseTags["project"]>>)}

\* Every value a setter is given.
AssignedDocs == RecVals \cup RemoteDocs \cup DesiredDocs \cup MdDocs

(***************************************************************************)
(* xml.dom.minidom nodes                                                   *)
(***************************************************************************)
TextNode(d) ==
    [nodeType |-> "TEXT_NODE", nodeName |-> "#text", data |-> d, childNodes |-> <<>>]

ElementNode(n, kids) ==
    [nodeType |-> "ELEMENT_NODE", nodeName |-> n, data |-> <<>>, childNodes |-> kids]

DocumentNode(kids) ==
    [nodeType |-> "DOCUMENT_NODE", nodeName |-> "#document", data |-> <<>>,
     childNodes |-> kids]

(***************************************************************************)
(* xml.dom.minidom.parseString (xml_change.py line 37).                    *)
(* Character data is appended to a preceding Text node; a literal carriage *)
(* return is read as a line feed (and CR LF as one line feed), a character *)
(* reference &#13; as a carriage return; white space outside the document  *)
(* element is no node.                                                     *)
(***************************************************************************)
AppendChar(kids, c) ==
    IF kids # <<>> /\ Last(kids).nodeType = "TEXT_NODE"
    THEN Append(Front(kids), [Last(kids) EXCEPT !.data = Append(@, c)])
    ELSE Append(kids, TextNode(<<c>>))

\* st.stack: the open elements, innermost last; st.doc: the document's children.
AddChild(st, node) ==
    IF st.stack = <<>>
    THEN [st EXCEPT !.doc = Append(@, node), !.cr = FALSE]
    ELSE [st EXCEPT !.stack = Append(Front(@),
                        [Last(@) EXCEPT !.childNodes = Append(@, node)]),
                    !.cr = FALSE]

AddChar(st, c) ==
    IF st.stack = <<>>
    THEN IF c \in Whitespace THEN st ELSE [st EXCEPT !.ok = FALSE]
    ELSE [st EXCEPT !.stack = Append(Front(@),
                        [Last(@) EXCEPT !.childNodes = AppendChar(@, c)])]

ParseUnit(st, u) ==
    IF ~st.ok THEN st
    ELSE IF u = XmlDecl THEN [st EXCEPT !.ok = FALSE]
    ELSE IF u \in {OpenTags[n] : n \in ElementNames} THEN
        IF st.stack = <<>> /\ st.doc # <<>>
        THEN [st EXCEPT !.ok = FALSE]
        ELSE [st EXCEPT !.stack = Append(@, ElementNode(TagNames[u], <<>>)),
                        !.cr = FALSE]
    ELSE IF u \in {EmptyTags[n] : n \in ElementNames} THEN
        IF st.stack = <<>> /\ st.doc # <<>>
        THEN [st EXCEPT !.ok = FALSE]
        ELSE AddChild(st, ElementNode(TagNames[u], <<>>))
    ELSE IF u \in {CloseTags[n] : n \in ElementNames} THEN
        IF st.stack = <<>> \/ Last(st.stack).nodeName # TagNames[u]
        THEN [st EXCEPT !.ok = FALSE]
        ELSE AddChild([st EXCEPT !.stack = Front(@)], Last(st.stack))
    ELSE IF u = "\r" THEN [AddChar(st, "\n") EXCEPT !.cr = TRUE]
    ELSE IF u = "\n" /\ st.cr THEN [st EXCEPT !.cr = FALSE]
    ELSE IF u = CRRef THEN [AddChar(st, "\r") EXCEPT !.cr = FALSE]
    ELSE [AddChar(st, u) EXCEPT !.cr = FALSE]

RECURSIVE ParseUnits(_, _)
ParseUnits(st, s) ==
    IF s = <<>> THEN st ELSE ParseUnits(ParseUnit(st, Head(s)), Tail(s))

\* [ok, err, doc]: TypeError for None, ExpatError for text that is no document.
parseString(xml_str) ==
    IF xml_str.isNone
    THEN [ok |-> FALSE, err |-> "TypeError", doc |-> DocumentNode(<<>>)]
    ELSE LET s    == xml_str.s
             body == IF s # <<>> /\ Head(s) = XmlDecl THEN Tail(s) ELSE s
             st   == ParseUnits([stack |-> <<>>, doc |-> <<>>, ok |-> TRUE,
                                 cr |-> FALSE], body)
         IN IF st.ok /\ st.stack = <<>> /\ Len(st.doc) = 1
            THEN [ok |-> TRUE, err |-> "", doc |-> DocumentNode(st.doc)]
            ELSE [ok |-> FALSE, err |-> "ExpatError", doc |-> DocumentNode(<<>>)]

(***************************************************************************)
(* XmlChange.xml_normalize (xml_change.py lines 34-54)                     *)
(***************************************************************************)
sortable_node_names ==
    {"project", "hudson.plugins.ws__cleanup.WsCleanup",
     "jenkins.plugins.slack.SlackNotifier"}

\* Python's order of the node names that occur ("#" sorts before letters).
NodeNameOrder == <<"#text", "a", "b", "description", "project", "view">>

NodeNameRanks ==
    [n \in {NodeNameOrder[i] : i \in 1..Len(NodeNameOrder)} |->
        CHOOSE i \in 1..Len(NodeNameOrder) : NodeNameOrder[i] = n]

\* list.sort(key=operator.attrgetter("nodeName")): stable, by nodeName alone.
RECURSIVE InsertByNodeName(_, _)
InsertByNodeName(sorted, node) ==
    IF sorted = <<>> THEN <<node>>
    ELSE IF NodeNameRanks[Last(sorted).nodeName] <= NodeNameRanks[node.nodeName]
         THEN Append(sorted, node)
         ELSE Append(InsertByNodeName(Front(sorted), node), Last(sorted))

RECURSIVE SortByNodeName(_)
SortByNodeName(kids) ==
    IF kids = <<>> THEN <<>>
    ELSE InsertByNodeName(SortByNodeName(Front(kids)), Last(kids))

RECURSIVE lstrip(_)
lstrip(d) == IF d # <<>> /\ Head(d) \in Whitespace THEN lstrip(Tail(d)) ELSE d

RECURSIVE rstrip(_)
rstrip(d) == IF d # <<>> /\ Last(d) \in Whitespace THEN rstrip(Front(d)) ELSE d

strip(d) == rstrip(lstrip(d))

\* The node_queue loop, lines 39-51: sort the children of a sortable node,
\* strip every non-empty Text child, visit every Element child.
RECURSIVE StripAndSort(_)
StripAndSort(node) ==
    LET kids == IF node.nodeName \in sortable_node_names
                THEN SortByNodeName(node.childNodes)
                ELSE node.childNodes
        Visit(n) == IF n.nodeType = "TEXT_NODE" /\ n.data # <<>>
                    THEN [n EXCEPT !.data = strip(@)]
                    ELSE IF n.nodeType = "ELEMENT_NODE" THEN StripAndSort(n)
                    ELSE n
    IN [node EXCEPT !.childNodes = [i \in 1..Len(kids) |-> Visit(kids[i])]]

\* Node.normalize(), line 53: drop empty Text nodes, join adjacent ones.
RECURSIVE normalize(_)
RECURSIVE NormalizeKids(_, _)
NormalizeKids(L, kids) ==
    IF kids = <<>> THEN L
    ELSE LET child == Head(kids)
         IN IF child.nodeType = "TEXT_NODE"
            THEN IF child.data = <<>> THEN NormalizeKids(L, Tail(kids))
                 ELSE IF L # <<>> /\ Last(L).nodeType = "TEXT_NODE"
                      THEN NormalizeKids(
                               Append(Front(L),
                                      [Last(L) EXCEPT !.data = @ \o child.data]),
                               Tail(kids))
                      ELSE NormalizeKids(Append(L, child), Tail(kids))
            ELSE NormalizeKids(Append(L, normalize(child)), Tail(kids))

normalize(node) == [node EXCEPT !.childNodes = NormalizeKids(<<>>, @)]

\* Node.toprettyxml(indent="  "), line 54: Element.writexml / Text.writexml.
\* Character data is written as it is: a carriage return goes out literally.
RECURSIVE writexml(_, _)
writexml(node, indent) ==
    IF node.nodeType = "TEXT_NODE"
    THEN indent \o node.data \o <<"\n">>
    ELSE IF node.childNodes = <<>>
    THEN indent \o <<EmptyTags[node.nodeName], "\n">>
    ELSE IF Len(node.childNodes) = 1 /\ node.childNodes[1].nodeType = "TEXT_NODE"
    THEN indent \o <<OpenTags[node.nodeName]>> \o node.childNodes[1].data
                \o <<CloseTags[node.nodeName], "\n">>
    ELSE indent \o <<OpenTags[node.nodeName], "\n">>
                \o Concat([i \in 1..Len(node.childNodes) |->
                              writexml(node.childNodes[i], indent \o <<" ", " ">>)])
                \o indent \o <<CloseTags[node.nodeName], "\n">>

toprettyxml(root) ==
    <<XmlDecl, "\n">>
        \o Concat([i \in 1..Len(root.childNodes) |-> writexml(root.childNodes[i], <<>>)])

\* Lines 37-54.  [ok, err, val]: the canonical text, or the exception
\* parseString raises.
NormalizeDocument(xml_str) ==
    LET p == parseString(xml_str)
    IN IF p.ok
       THEN [ok |-> TRUE, err |-> "",
             val |-> Str(toprettyxml(normalize(StripAndSort(p.doc))))]
       ELSE [ok |-> FALSE, err |-> p.err, val |-> NoneV]

\* xml_normalize is a static method without state: what it returns for the
\* documents assigned to records is computed once.
NormalizedDocs == [v \in AssignedDocs |-> NormalizeDocument(v)]

xml_normalize(xml_str) ==
    IF xml_str \in AssignedDocs THEN NormalizedDocs[xml_str]
    ELSE NormalizeDocument(xml_str)

(***************************************************************************)
(* XmlChange (xml_change.py lines 16-106)                                  *)
(***************************************************************************)
CREATE == "create"

UPDATE == "update"

DELETE == "delete"

\* What changetype() returns for "no change" (Python None).
NONE == "None"

\* XmlChange.__init__, lines 27-32, for a truthy name.
XmlChange(name) == [name |-> name, _before |-> NoneV, _after |-> NoneV]

\* XmlChange(name) for any name, None and "" included: `if not name` raises
\* ValueError.  [ok, err, value]: value is <<the record>>, or <<>> when raised.
XmlChange__init__(name) ==
    IF ~Truthy(name) THEN [ok |-> FALSE, err |-> "ValueError", value |-> <<>>]
    ELSE [ok |-> TRUE, err |-> "", value |-> <<XmlChange(name.s)>>]

\* A classification that looks at before_xml alone once the fields differ:
\* it never answers DELETE.
changetype_before_only(xc) ==
    IF xc._before = xc._after THEN NONE
    ELSE IF ~Truthy(xc._before) THEN CREATE
    ELSE UPDATE

\* A classification whose answer for two differing documents is a value of
\* its own, one apply_plan has no branch for.
changetype_modified(xc) ==
    IF xc._before = xc._after THEN NONE
    ELSE IF ~Truthy(xc._before) /\ Truthy(xc._after) THEN CREATE
    ELSE IF Truthy(xc._before) /\ ~Truthy(xc._after) THEN DELETE
    ELSE "modified"

\* XmlChange.changetype, lines 71-81.
changetype(xc) ==
    IF xc._before = xc._after THEN NONE
    ELSE IF ~Truthy(xc._before) /\ Truthy(xc._after) THEN CREATE
    ELSE IF Truthy(xc._before) /\ ~Truthy(xc._after) THEN DELETE
    ELSE UPDATE

(***************************************************************************)
(* XmlChangeDefaultDict (xml_change.py lines 109-113): a dict, so a        *)
(* sequence of records in insertion order, one per key.                    *)
(***************************************************************************)
HasKey(d, key) == \E i \in 1..Len(d) : d[i].name = key

IndexOf(d, key) == CHOOSE i \in 1..Len(d) : d[i].name = key

Keys(d) == [i \in 1..Len(d) |-> d[i].name]

\* A lookup that stores the key before the record's name is validated.
GetItem_inserts(d, key) ==
    IF HasKey(d, key) THEN [ok |-> TRUE, err |-> "", d |-> d]
    ELSE IF key = <<>>
    THEN [ok |-> FALSE, err |-> "ValueError", d |-> Append(d, XmlChange(key))]
    ELSE [ok |-> TRUE, err |-> "", d |-> Append(d, XmlChange(key))]

\* A lookup that makes a new record on every reference.
GetItem_fresh(d, key) ==
    IF key = <<>> THEN [ok |-> FALSE, err |-> "ValueError", d |-> d]
    ELSE IF HasKey(d, key)
    THEN [ok |-> TRUE, err |-> "", d |-> [d EXCEPT ![IndexOf(d, key)] = XmlChange(key)]]
    ELSE [ok |-> TRUE, err |-> "", d |-> Append(d, XmlChange(key))]

\* d[key]: __missing__ inserts XmlChange(name=key), which raises ValueError
\* for a falsy name before anything is stored.  [ok, err, d].
GetItem(d, key) ==
    IF HasKey(d, key) THEN [ok |-> TRUE, err |-> "", d |-> d]
    ELSE IF key = <<>> THEN [ok |-> FALSE, err |-> "ValueError", d |-> d]
    ELSE [ok |-> TRUE, err |-> "", d |-> Append(d, XmlChange(key))]

\* A before_xml setter that takes None to mean "clear the field".
SetBefore_clears(d, key, val) ==
    LET g == GetItem(d, key)
        n == xml_normalize(val)
    IN IF ~g.ok THEN g
       ELSE IF val.isNone
       THEN [ok |-> TRUE, err |-> "",
             d |-> [g.d EXCEPT ![IndexOf(g.d, key)]._before = NoneV]]
       ELSE IF ~n.ok THEN [ok |-> FALSE, err |-> n.err, d |-> g.d]
       ELSE [ok |-> TRUE, err |-> "",
             d |-> [g.d EXCEPT ![IndexOf(g.d, key)]._before = n.val]]

\* d[key].before_xml = val (setter, lines 100-102).  The lookup comes first,
\* then xml_normalize; the field is stored only when it returns.
SetBefore(d, key, val) ==
    LET g == GetItem(d, key)
        n == xml_normalize(val)
    IN IF ~g.ok THEN g
       ELSE IF ~n.ok THEN [ok |-> FALSE, err |-> n.err, d |-> g.d]
       ELSE [ok |-> TRUE, err |-> "",
             d |-> [g.d EXCEPT ![IndexOf(g.d, key)]._before = n.val]]

\* An after_xml setter that stores the raw text first and the normal form
\* after: when the parser raises, the raw text stays in the field.
SetAfter_raw_first(d, key, val) ==
    LET g == GetItem(d, key)
        n == xml_normalize(val)
    IN IF ~g.ok THEN g
       ELSE IF ~n.ok
       THEN [ok |-> FALSE, err |-> n.err,
             d |-> [g.d EXCEPT ![IndexOf(g.d, key)]._after = val]]
       ELSE [ok |-> TRUE, err |-> "",
             d |-> [g.d EXCEPT ![IndexOf(g.d, key)]._after = n.val]]

\* d[key].after_xml = val (setter, lines 104-106).
SetAfter(d, key, val) ==
    LET g == GetItem(d, key)
        n == xml_normalize(val)
    IN IF ~g.ok THEN g
       ELSE IF ~n.ok THEN [ok |-> FALSE, err |-> n.err, d |-> g.d]
       ELSE [ok |-> TRUE, err |-> "",
             d |-> [g.d EXCEPT ![IndexOf(g.d, key)]._after = n.val]]

(***************************************************************************)
(* NameRegexFilter (core.py lines 38-57).  A compiled regular expression   *)
(* is the sequence of its alternatives ("|"); an alternative is a sequence *)
(* of tokens: ".*" (any run of characters), "." (any one character), "\\Z" *)
(* (the end of the string), or a character that stands for itself.         *)
(***************************************************************************)
\* re.compile(regexp): a pattern without "|" is one alternative, the empty
\* pattern one empty alternative.
NameRegexFilter(regexp) == [regex |-> IF regexp = <<>> THEN <<<<>>>> ELSE regexp]

\* The pattern of the filter __init__ installs, core.py line 83: ".*".
DotStar == <<<<".*">>>>

\* A translation that leaves out the end-of-string anchor.
translate_unanchored(glob) ==
    [i \in 1..Len(glob) |->
        IF glob[i] = "*" THEN ".*" ELSE IF glob[i] = "?" THEN "." ELSE glob[i]]

\* fnmatch.translate(glob): "(?s:" + res + ")\Z" where "*" becomes ".*",
\* "?" becomes "." and any other character its escaped self.
translate(glob) ==
    [i \in 1..Len(glob) |->
        IF glob[i] = "*" THEN ".*" ELSE IF glob[i] = "?" THEN "." ELSE glob[i]]
        \o <<"\\Z">>

\* NameRegexFilter.from_glob_list, lines 46-50: "|".join of the translations.
from_glob_list(globs) ==
    NameRegexFilter([i \in 1..Len(globs) |-> translate(globs[i])])

\* Pattern.match for one alternative: the tokens match at the start of the
\* string; what follows the match is not looked at.
RECURSIVE ReMatch(_, _)
ReMatch(tokens, name) ==
    IF tokens = <<>> THEN TRUE
    ELSE IF Head(tokens) = "\\Z" THEN name = <<>> /\ ReMatch(Tail(tokens), name)
    ELSE IF Head(tokens) = ".*"
         THEN \E k \in 0..Len(name) :
                 ReMatch(Tail(tokens), SubSeq(name, k + 1, Len(name)))
    ELSE IF name = <<>> THEN FALSE
    ELSE IF Head(tokens) = "." THEN ReMatch(Tail(tokens), Tail(name))
    ELSE Head(tokens) = Head(name) /\ ReMatch(Tail(tokens), Tail(name))

\* NameRegexFilter.__call__, lines 52-54: regex.match(job_name) is not None.
FilterCall(f, job_name) ==
    \E i \in 1..Len(f.regex) : ReMatch(f.regex[i], job_name)

(***************************************************************************)
(* MetadataConfig (connect_config.py lines 96-146).  A dict whose keys are *)
(* known is a function on them: <<>> for a key that is not in the dict,    *)
(* <<v>> for a key whose value is v.                                       *)
(***************************************************************************)
\* The field names a policy or a description may use.
MdFields == {"team", "Tier"}

\* str.lower() of the field names.
Lower == [f \in MdFields |-> IF f = "Tier" THEN "tier" ELSE f]

RequiredKey == "required-description-fields"

\* f"valid-values-for-{field}".lower()
ValidValuesKey(field) == "valid-values-for-" \o Lower[field]

\* The dict of a configuration without a [metadata] section.
EmptyConf == [k \in {RequiredKey} \cup {ValidValuesKey(f) : f \in MdFields} |-> <<>>]

\* valid_field_values[field] = metadata_conf[key], lines 110-113: a dict in
\* insertion order, one entry per field.
RECURSIVE ValidFieldValues(_, _, _)
ValidFieldValues(fields, metadata_conf, acc) ==
    IF fields = <<>> THEN acc
    ELSE LET field == Head(fields)
             found == metadata_conf[ValidValuesKey(field)]
             entry == [field |-> field, values |-> found[1]]
         IN IF found = <<>> THEN ValidFieldValues(Tail(fields), metadata_conf, acc)
            ELSE IF \E i \in 1..Len(acc) : acc[i].field = field
            THEN ValidFieldValues(Tail(fields), metadata_conf,
                     [i \in 1..Len(acc) |->
                         IF acc[i].field = field THEN entry ELSE acc[i]])
            ELSE ValidFieldValues(Tail(fields), metadata_conf, Append(acc, entry))

\* MetadataConfig.__init__, lines 104-115.
MetadataConfig(metadata_conf) ==
    LET required_fields ==
            IF metadata_conf[RequiredKey] = <<>> THEN <<>>
            ELSE metadata_conf[RequiredKey][1]
    IN [metadata_conf |-> metadata_conf,
        required_fields |-> required_fields,
        valid_field_values |-> ValidFieldValues(required_fields, metadata_conf, <<>>)]

\* The text of the first warning; its backquotes are written as quotes.
MissingWarning(field) ==
    <<"Missing metadata in job description: ", field, ".",
      "\nAdd a line like '", field, ": somevalue' to the description.">>

InvalidWarning(field, val, field_values) ==
    <<"Field ", field, " in job description has invalid value ", val, ".",
      "\nValid values are ", field_values>>

\* validate, the first loop, lines 132-137.
RECURSIVE ValidateRequired(_, _)
ValidateRequired(fields, md) ==
    IF fields = <<>> THEN <<>>
    ELSE (IF md[Head(fields)] = <<>> THEN <<MissingWarning(Head(fields))>> ELSE <<>>)
             \o ValidateRequired(Tail(fields), md)

\* validate, the second loop, lines 138-146.
RECURSIVE ValidateValues(_, _)
ValidateValues(items, md) ==
    IF items = <<>> THEN <<>>
    ELSE LET field == Head(items).field
             field_values == Head(items).values
             val == md[field]
         IN (IF val # <<>> /\ \A i \in 1..Len(field_values) : field_values[i] # val[1]
             THEN <<InvalidWarning(field, val[1], field_values)>>
             ELSE <<>>)
                \o ValidateValues(Tail(items), md)

\* A validate that does not look at the allow-lists.
validate_required_only(md_conf, md) == ValidateRequired(md_conf.required_fields, md)

\* MetadataConfig.validate, lines 131-146: the warnings in the order yielded.
validate(md_conf, md) ==
    ValidateRequired(md_conf.required_fields, md)
        \o ValidateValues(md_conf.valid_field_values, md)

(***************************************************************************)
(* JenkinsConnectConfig.__init__ (connect_config.py lines 19-27): the      *)
(* instance has exactly the attributes of __slots__.                       *)
(***************************************************************************)
JenkinsConnectConfig(url, username, password) ==
    [url |-> url, username |-> username, password |-> password, timeout |-> 60,
     metadata |-> MetadataConfig(EmptyConf)]

\* load_from_files, lines 44-80, for a configuration whose [metadata]
\* section holds metadata_conf.
load_from_files(metadata_conf) ==
    [JenkinsConnectConfig("url", "user", "key")
        EXCEPT !.metadata = MetadataConfig(metadata_conf)]

(***************************************************************************)
(* JenkinsJobManager.__init__ (core.py lines 76-90)                        *)
(***************************************************************************)
RecNamespaces == {"jobs", "views"}

RecKeys == {<<"a">>, <<>>}

\* The keys looked up where the order of first reference matters.
LookupKeys == {<<"a">>, <<"b">>, <<>>}

\* The orchestrator whose configuration files hold metadata_conf.
NewManagerWith(metadata_conf) ==
    /\ config = load_from_files(metadata_conf)
    /\ jobs = <<>>
    /\ views = <<>>
    /\ _jobs_filter_func = NameRegexFilter(DotStar)
    /\ fetched = <<>>
    /\ calls = <<>>
    /\ result = [op |-> "__init__", ok |-> TRUE, err |-> ""]
    /\ gathers = 0
    /\ assigned = [k \in RecNamespaces \X (RecKeys \cup LookupKeys) \X {"_before", "_after"}
                      |-> NoneV]

NewManager == NewManagerWith(EmptyConf)

NoEnv ==
    /\ env_views = <<>>
    /\ env_jobs = <<>>
    /\ env_view_data = <<>>
    /\ env_job_data = <<>>

NoDocument ==
    /\ nx_tree = ElementNode("project", <<>>)
    /\ ny = <<>>
    /\ perm_out = NoneV

(***************************************************************************)
(* Documents given to xml_normalize: every well-formed text of elements    *)
(* and character data is the compact text of one tree.                     *)
(***************************************************************************)
\* The most children the document element of an input document has.
MaxKids == 3

\* Trees whose document element has up to MaxKids children, each a text or
\* an element a or b that is empty or holds one text.
RawTrees ==
    LET RawTexts  == {<<"x">>, <<" ">>, <<" ", "y", "\n">>, <<"x", CRRef, "y">>}
        LeafTexts == {<<"x">>, <<" ", "y">>}
        RawLeaves ==
            {ElementNode(n, <<>>) : n \in {"a", "b"}}
                \cup {ElementNode(n, <<TextNode(t)>>) : n \in {"a", "b"}, t \in LeafTexts}
        RawAtoms  == RawLeaves \cup {TextNode(t) : t \in RawTexts}
    IN {ElementNode(n, kids) :
           n \in {"project", "view"},
           kids \in UNION {[1..k -> RawAtoms] : k \in 0..MaxKids}}

\* The text of a tree, nothing added: <n/> for an empty child, <n></n> for an
\* empty document element.
RECURSIVE RawWriteNode(_)
RawWriteNode(node) ==
    IF node.nodeType = "TEXT_NODE" THEN node.data
    ELSE IF node.childNodes = <<>> THEN <<EmptyTags[node.nodeName]>>
    ELSE <<OpenTags[node.nodeName]>>
            \o Concat([i \in 1..Len(node.childNodes) |->
                          RawWriteNode(node.childNodes[i])])
            \o <<CloseTags[node.nodeName]>>

RawWrite(tree) ==
    IF tree.childNodes = <<>>
    THEN Str(<<OpenTags[tree.nodeName], CloseTags[tree.nodeName]>>)
    ELSE Str(RawWriteNode(tree))

NoAdjacentText(kids) ==
    \A i \in 1..(Len(kids) - 1) :
        ~(kids[i].nodeType = "TEXT_NODE" /\ kids[i + 1].nodeType = "TEXT_NODE")

Bijections(n) == {p \in [1..n -> 1..n] : \A i, j \in 1..n : p[i] = p[j] => i = j}

(***************************************************************************)
(* Canonicalization applied to a document, again to its result, and to a   *)
(* copy of the document with the children of its document element permuted.*)
(***************************************************************************)
\* How many times xml_normalize is applied in a row.
MaxRounds == 2

InitNorm ==
    /\ NewManager
    /\ NoEnv
    /\ nx_tree \in RawTrees
    /\ ny = <<>>
    /\ perm_out = NoneV

NormStep ==
    /\ Len(ny) < MaxRounds
    /\ ny' = Append(ny, xml_normalize(IF ny = <<>> THEN RawWrite(nx_tree)
                                      ELSE Last(ny)).val)
    /\ UNCHANGED <<nx_tree, perm_out>>
    /\ UNCHANGED <<config, jobs, views, _jobs_filter_func, env_views, env_jobs,
                    env_view_data, env_job_data, fetched, calls, result, gathers,
                    assigned>>

PermStep(p) ==
    LET kids == nx_tree.childNodes
        perm == [i \in 1..Len(kids) |-> kids[p[i]]]
    IN /\ perm_out = NoneV
       /\ nx_tree.nodeName \in sortable_node_names
       /\ perm # kids
       /\ NoAdjacentText(kids)
       /\ NoAdjacentText(perm)
       /\ perm_out' = xml_normalize(RawWrite([nx_tree EXCEPT !.childNodes = perm])).val
       /\ UNCHANGED <<nx_tree, ny>>
       /\ UNCHANGED <<config, jobs, views, _jobs_filter_func, env_views, env_jobs,
                    env_view_data, env_job_data, fetched, calls, result, gathers,
                    assigned>>

NextNorm ==
    \/ NormStep
    \/ \E p \in Bijections(Len(nx_tree.childNodes)) : PermStep(p)

SpecNorm == InitNorm /\ [][NextNorm]_vars

(***************************************************************************)
(* JenkinsJobManager.detected_changes (core.py lines 249-253): any() over  *)
(* itertools.chain(jobs.values(), views.values()).                         *)
(***************************************************************************)
RECURSIVE AnyChanged(_)
AnyChanged(items) ==
    IF items = <<>> THEN FALSE
    ELSE IF changetype(Head(items)) # NONE THEN TRUE
    ELSE AnyChanged(Tail(items))

\* A detected_changes that looks at the jobs alone.
detected_changes_jobs_only(jobs0, views0) == AnyChanged(jobs0)

detected_changes(jobs0, views0) == AnyChanged(jobs0 \o views0)

DetectedChanges ==
    /\ result' = [op |-> "detected_changes", ok |-> TRUE, err |-> "",
                  value |-> detected_changes(jobs, views)]
    /\ UNCHANGED <<config, jobs, views, _jobs_filter_func, fetched, calls, gathers,
                   assigned>>
    /\ UNCHANGED env_vars
    /\ UNCHANGED norm_vars

(***************************************************************************)
(* XmlChange.difflines (xml_change.py lines 82-89)                         *)
(***************************************************************************)
\* str.splitlines(): a line ends at a line feed, a carriage return or the two
\* in a row; no empty line follows the last line end.
RECURSIVE splitlines(_, _)
splitlines(text, line) ==
    IF text = <<>> THEN (IF line = <<>> THEN <<>> ELSE <<line>>)
    ELSE IF Head(text) = "\r" /\ Len(text) > 1 /\ text[2] = "\n"
    THEN <<line>> \o splitlines(Tail(Tail(text)), <<>>)
    ELSE IF Head(text) \in {"\n", "\r"} THEN <<line>> \o splitlines(Tail(text), <<>>)
    ELSE splitlines(Tail(text), Append(line, Head(text)))

\* difflib.unified_diff(a, b, fromfile, tofile): nothing for equal lists of
\* lines; else the two file lines, and one hunk of the lines between the
\* common start and the common end, those of a removed, those of b added.
unified_diff(a, b, fromfile, tofile) ==
    IF a = b THEN <<>>
    ELSE LET Common(x, y, k) == k <= Len(x) /\ k <= Len(y) /\ SubSeq(x, 1, k) = SubSeq(y, 1, k)
             pre   == CHOOSE k \in 0..Len(a) : Common(a, b, k) /\ ~Common(a, b, k + 1)
             resta == SubSeq(a, pre + 1, Len(a))
             restb == SubSeq(b, pre + 1, Len(b))
             Ends(x, y, k) ==
                 /\ k <= Len(x) /\ k <= Len(y)
                 /\ SubSeq(x, Len(x) - k + 1, Len(x)) = SubSeq(y, Len(y) - k + 1, Len(y))
             suf   == CHOOSE k \in 0..Len(resta) :
                          Ends(resta, restb, k) /\ ~Ends(resta, restb, k + 1)
         IN <<<<"--- ", fromfile>>, <<"+++ ", tofile>>, <<"@@">>>>
                \o [i \in 1..(Len(resta) - suf) |-> <<"-", resta[i]>>]
                \o [i \in 1..(Len(restb) - suf) |-> <<"+", restb[i]>>]

difflines(item) ==
    unified_diff(splitlines(IF Truthy(item._before) THEN item._before.s ELSE <<>>, <<>>),
                 splitlines(IF Truthy(item._after) THEN item._after.s ELSE <<>>, <<>>),
                 item.name, item.name)

(***************************************************************************)
(* JenkinsJobManager.plan_report, default format (core.py lines 316-353).  *)
(***************************************************************************)
\* iter_changes(xml_dict) consumed to the end: the lines yielded and the
\* names appended to changecounts.
RECURSIVE iter_changes(_, _)
iter_changes(xml_dict, changecounts) ==
    IF xml_dict = <<>> THEN [lines |-> <<>>, changecounts |-> changecounts]
    ELSE LET item == Head(xml_dict)
             ct   == changetype(item)
             diff == difflines(item)
             \* appended at the first line, when there is one
             counted ==
                 IF ct = NONE \/ diff = <<>> THEN changecounts
                 ELSE [changecounts EXCEPT ![ct] = Append(@, item.name)]
             rest == iter_changes(Tail(xml_dict), counted)
         IN [lines |-> (IF ct = NONE THEN <<>> ELSE diff) \o rest.lines,
             changecounts |-> rest.changecounts]

\* The default template: the lines of the changed views, then those of the
\* changed jobs, then the summary composed from the counts.
default_j2(view_changes, job_changes) ==
    LET cc == job_changes.changecounts
    IN [lines |-> view_changes.lines \o job_changes.lines,
        changecounts |-> cc,
        summary |-> IF cc[CREATE] = <<>> /\ cc[UPDATE] = <<>> /\ cc[DELETE] = <<>>
                    THEN <<"No changes.">>
                    ELSE <<"added ", Len(cc[CREATE]), " updated ", Len(cc[UPDATE]),
                           " removed ", Len(cc[DELETE])>>]

\* list(plan_report()): both generators share changecounts, the views'
\* generator is consumed first.
plan_report(views0, jobs0) ==
    LET view_changes == iter_changes(views0, [t \in {CREATE, UPDATE, DELETE} |-> <<>>])
        job_changes  == iter_changes(jobs0, view_changes.changecounts)
    IN default_j2(view_changes, job_changes)

PlanReport ==
    /\ \E r \in {plan_report(views, jobs)} :
          result' = [op |-> "plan_report", ok |-> TRUE, err |-> "", lines |-> r.lines,
                     changecounts |-> r.changecounts, summary |-> r.summary]
    /\ UNCHANGED <<config, jobs, views, _jobs_filter_func, fetched, calls, gathers,
                   assigned>>
    /\ UNCHANGED env_vars
    /\ UNCHANGED norm_vars

(***************************************************************************)
(* Records of the two Change Sets under arbitrary lookups and assignments. *)
(***************************************************************************)
ChangeSet(ns) == IF ns = "jobs" THEN jobs ELSE views

InitRec ==
    /\ NewManager
    /\ NoEnv
    /\ NoDocument

\* What the exception of a failed assignment carries (its args).  ValueError
\* is raised by __init__ with a fixed text; TypeError and ExpatError are raised
\* inside minidom.parseString(xml_str), which is handed the text only: expat's
\* message is its error string followed by the line and column of the fault
\* (the numbers are left out here).
ExceptionArgs(err) ==
    IF err = "ValueError" THEN << <<"Name must be set">> >>
    ELSE IF err = "TypeError"
    THEN << <<"a bytes-like object is required, not 'NoneType'">> >>
    ELSE IF err = "ExpatError" THEN << <<"no element found", ": line ", ", column ">> >>
    ELSE <<>>

\* ns[key]
RecLookup(ns, key) ==
    \E g \in {GetItem(ChangeSet(ns), key)} :
       /\ jobs' = IF ns = "jobs" THEN g.d ELSE jobs
       /\ views' = IF ns = "views" THEN g.d ELSE views
       /\ result' = [op |-> "__getitem__", ok |-> g.ok, err |-> g.err]
       /\ UNCHANGED <<config, _jobs_filter_func, fetched, calls, gathers, assigned>>
       /\ UNCHANGED env_vars
       /\ UNCHANGED norm_vars

\* ns[key].before_xml = val
RecSetBefore(ns, key, val) ==
    \E r \in {SetBefore(ChangeSet(ns), key, val)} :
       /\ jobs' = IF ns = "jobs" THEN r.d ELSE jobs
       /\ views' = IF ns = "views" THEN r.d ELSE views
       /\ result' = [op |-> "before_xml", ok |-> r.ok, err |-> r.err, name |-> key,
                     args |-> ExceptionArgs(r.err)]
       /\ assigned' = IF r.ok THEN [assigned EXCEPT ![<<ns, key, "_before">>] = val]
                      ELSE assigned
       /\ UNCHANGED <<config, _jobs_filter_func, fetched, calls, gathers>>
       /\ UNCHANGED env_vars
       /\ UNCHANGED norm_vars

\* ns[key].after_xml = val
RecSetAfter(ns, key, val) ==
    \E r \in {SetAfter(ChangeSet(ns), key, val)} :
       /\ jobs' = IF ns = "jobs" THEN r.d ELSE jobs
       /\ views' = IF ns = "views" THEN r.d ELSE views
       /\ result' = [op |-> "after_xml", ok |-> r.ok, err |-> r.err, name |-> key,
                     args |-> ExceptionArgs(r.err)]
       /\ assigned' = IF r.ok THEN [assigned EXCEPT ![<<ns, key, "_after">>] = val]
                      ELSE assigned
       /\ UNCHANGED <<config, _jobs_filter_func, fetched, calls, gathers>>
       /\ UNCHANGED env_vars
       /\ UNCHANGED norm_vars

\* XmlChange(name), outside any Change Set
NewXmlChange(name) ==
    \E r \in {XmlChange__init__(name)} :
       /\ result' = [op |-> "XmlChange", ok |-> r.ok, err |-> r.err, name |-> name,
                     value |-> r.value]
       /\ UNCHANGED <<config, jobs, views, _jobs_filter_func, fetched, calls, gathers,
                      assigned>>
       /\ UNCHANGED env_vars
       /\ UNCHANGED norm_vars

NextRec ==
    \/ DetectedChanges
    \/ PlanReport
    \/ \E name \in {NoneV, Str(<<>>), Str(<<"a">>)} : NewXmlChange(name)
    \/ \E ns \in RecNamespaces : \E key \in RecKeys : RecLookup(ns, key)
    \/ \E ns \in RecNamespaces : \E key \in RecKeys : \E val \in RecVals :
          RecSetBefore(ns, key, val)
    \/ \E ns \in RecNamespaces : \E key \in RecKeys : \E val \in RecVals :
          RecSetAfter(ns, key, val)

SpecRec == InitRec /\ [][NextRec]_vars

(***************************************************************************)
(* Metadata policies applied to extracted mappings.                        *)
(***************************************************************************)
\* Policies whose required-description-fields names at most two fields, a
\* field twice included, and whose allow-lists have at most two values.
MetadataConfs ==
    LET AllowLists == {<<>>, <<"x">>, <<"x", "y">>}
        RequiredLists ==
            {<<>>} \cup {<<f>> : f \in MdFields}
                   \cup {<<f, g>> : f \in MdFields, g \in MdFields}
    IN {c \in [DOMAIN EmptyConf -> {<<>>} \cup {<<v>> : v \in RequiredLists \cup AllowLists}] :
           /\ c[RequiredKey] # <<>> => c[RequiredKey][1] \in RequiredLists
           /\ \A f \in MdFields :
                 c[ValidValuesKey(f)] # <<>> => c[ValidValuesKey(f)][1] \in AllowLists}

\* What extract_md may return: every field missing or with a value.
Mappings == [MdFields -> {<<>>, <<"x">>, <<"z">>}]

InitMeta ==
    /\ \E metadata_conf \in MetadataConfs : NewManagerWith(metadata_conf)
    /\ NoEnv
    /\ NoDocument

\* self.config.metadata.validate(md), consumed to the end
Validate(md) ==
    /\ result' = [op |-> "validate", ok |-> TRUE, err |-> "", md |-> md,
                  value |-> validate(config.metadata, md)]
    /\ UNCHANGED <<config, jobs, views, _jobs_filter_func, fetched, calls, gathers,
                   assigned>>
    /\ UNCHANGED env_vars
    /\ UNCHANGED norm_vars

NextMeta == \E md \in Mappings : Validate(md)

SpecMeta == InitMeta /\ [][NextMeta]_vars

(***************************************************************************)
(* XmlChange.extract_md (xml_change.py lines 56-69).  The description's    *)
(* text is read line by line: a line of the form key ":" value, white      *)
(* space allowed before the key and after the colon, is an entry; the      *)
(* value runs to the end of the line.                                      *)
(***************************************************************************)
\* The lines of a text: its units between line feeds.
RECURSIVE SplitLines(_, _)
SplitLines(text, line) ==
    IF text = <<>> THEN <<line>>
    ELSE IF Head(text) = "\n" THEN <<line>> \o SplitLines(Tail(text), <<>>)
    ELSE SplitLines(Tail(text), Append(line, Head(text)))

\* The string that a non-empty sequence of units spells.
RECURSIVE JoinUnits(_)
JoinUnits(units) ==
    IF Len(units) = 1 THEN units[1] ELSE units[1] \o JoinUnits(Tail(units))

\* ^\s*([\w-]+):\s*([\w -]+)\s*$ on one line: <<>> for no match, else
\* <<[key, value]>>.
MatchLine(line) ==
    LET IsWord(u) == u \notin Whitespace \cup {":", ManagedMarker}
        i == IF \E k \in 1..Len(line) : line[k] \notin Whitespace
             THEN CHOOSE k \in 1..Len(line) :
                      /\ line[k] \notin Whitespace
                      /\ \A h \in 1..(k - 1) : line[h] \in Whitespace
             ELSE 0
        \* the key is one word unit
        v == IF i > 0 /\ i + 1 <= Len(line) THEN lstrip(SubSeq(line, i + 2, Len(line)))
             ELSE <<>>
    IN IF /\ i > 0
          /\ IsWord(line[i])
          /\ i + 1 <= Len(line)
          /\ line[i + 1] = ":"
          /\ v # <<>>
          /\ \A k \in 1..Len(v) : IsWord(v[k]) \/ v[k] = " "
       THEN <<[key |-> line[i], value |-> JoinUnits(v)]>>
       ELSE <<>>

\* The dict built from the matches in order: a later match of a key replaces
\* an earlier one.  Only the keys a policy can name are kept.
RECURSIVE MdOfLines(_, _)
MdOfLines(lines, md) ==
    IF lines = <<>> THEN md
    ELSE LET m == MatchLine(Head(lines))
         IN IF m # <<>> /\ m[1].key \in DOMAIN md
            THEN MdOfLines(Tail(lines), [md EXCEPT ![m[1].key] = <<m[1].value>>])
            ELSE MdOfLines(Tail(lines), md)

extract_md(item) ==
    LET none == [f \in MdFields |-> <<>>]
    IN IF ~Truthy(item._after) THEN none
       ELSE LET node  == parseString(item._after).doc.childNodes[1]
                descs == SelectSeq(node.childNodes,
                                   LAMBDA k : k.nodeName = "description")
                kids  == descs[1].childNodes
            IN IF descs = <<>> THEN none
               ELSE IF kids = <<>> \/ kids[1].nodeType # "TEXT_NODE" THEN none
               ELSE MdOfLines(
                        SplitLines(SelectSeq(kids[1].data,
                                             LAMBDA u : u # ManagedMarker), <<>>),
                        none)

(***************************************************************************)
(* JenkinsJobManager.validate_metadata (core.py lines 305-314): the pairs  *)
(* (job.name, warning) in the order yielded.                               *)
(***************************************************************************)
\* A validate_metadata that validates every job record.
RECURSIVE validate_metadata_all(_, _)
validate_metadata_all(md_conf, jobs0) ==
    IF jobs0 = <<>> THEN <<>>
    ELSE LET job      == Head(jobs0)
             warnings == validate(md_conf, extract_md(job))
         IN [i \in 1..Len(warnings) |-> <<job.name, warnings[i]>>]
                \o validate_metadata_all(md_conf, Tail(jobs0))

RECURSIVE validate_metadata(_, _)
validate_metadata(md_conf, jobs0) ==
    IF jobs0 = <<>> THEN <<>>
    ELSE LET job      == Head(jobs0)
             warnings == validate(md_conf, extract_md(job))
         IN (IF job._after.isNone THEN <<>>
             ELSE [i \in 1..Len(warnings) |-> <<job.name, warnings[i]>>])
                \o validate_metadata(md_conf, Tail(jobs0))

\* list(self.validate_metadata())
ValidateMetadata ==
    /\ result' = [op |-> "validate_metadata", ok |-> TRUE, err |-> "",
                  value |-> validate_metadata(config.metadata, jobs)]
    /\ UNCHANGED <<config, jobs, views, _jobs_filter_func, fetched, calls, gathers,
                   assigned>>
    /\ UNCHANGED env_vars
    /\ UNCHANGED norm_vars

\* No policy; team required; team and Tier required, team one of x, y.
MdPolicies ==
    {EmptyConf,
     [EmptyConf EXCEPT ![RequiredKey] = <<<<"team">>>>],
     [EmptyConf EXCEPT ![RequiredKey] = <<<<"team", "Tier">>>>,
                       ![ValidValuesKey("team")] = <<<<"x", "y">>>>]}

InitMd ==
    /\ \E metadata_conf \in MdPolicies : NewManagerWith(metadata_conf)
    /\ NoEnv
    /\ NoDocument

NextMd ==
    \/ ValidateMetadata
    \/ \E key \in LookupKeys \ {<<>>} : RecLookup("jobs", key)
    \/ \E key \in LookupKeys \ {<<>>} : RecSetBefore("jobs", key, RawEmptyProject)
    \/ \E key \in LookupKeys \ {<<>>} : \E val \in MdDocs : RecSetAfter("jobs", key, val)

SpecMd == InitMd /\ [][NextMd]_vars

(***************************************************************************)
(* Name filters built from lists of globs and called with names.           *)
(***************************************************************************)
FilterGlobs ==
    {<<"f", "o", "o", "*">>, <<"b", "a", "r">>, <<"b", "a", "?">>, <<"*">>,
     <<"f", "*", "r">>, <<"o">>}

FilterNames ==
    {<<"f", "o", "o", "b", "a", "r">>, <<"b", "a", "r">>, <<"b", "a", "z">>,
     <<"f", "o", "o">>, <<"b", "a", "r", "z">>, <<"x", "b", "a", "r">>, <<>>}

\* Every list of at most two globs.
GlobLists ==
    {<<>>} \cup {<<g>> : g \in FilterGlobs}
           \cup {<<g, h>> : g \in FilterGlobs, h \in FilterGlobs}

\* self._jobs_filter_func = NameRegexFilter.from_glob_list(globs)
BuildFilter(globs) ==
    /\ _jobs_filter_func' = from_glob_list(globs)
    /\ result' = [op |-> "from_glob_list", ok |-> TRUE, err |-> ""]
    /\ UNCHANGED <<config, jobs, views, fetched, calls, gathers, assigned>>
    /\ UNCHANGED env_vars
    /\ UNCHANGED norm_vars

\* self._jobs_filter_func(name)
CallFilter(name) ==
    /\ result' = [op |-> "__call__", ok |-> TRUE, err |-> "", name |-> name,
                  value |-> FilterCall(_jobs_filter_func, name)]
    /\ UNCHANGED <<config, jobs, views, _jobs_filter_func, fetched, calls, gathers,
                   assigned>>
    /\ UNCHANGED env_vars
    /\ UNCHANGED norm_vars

NextFilter ==
    \/ \E globs \in GlobLists : BuildFilter(globs)
    \/ \E name \in FilterNames : CallFilter(name)

SpecFilter == InitRec /\ [][NextFilter]_vars

(***************************************************************************)
(* Auto-vivification: lookups of several keys in the two Change Sets, and  *)
(* assignments of one document to before_xml.                              *)
(***************************************************************************)
NextLookup ==
    \/ \E ns \in RecNamespaces : \E key \in LookupKeys : RecLookup(ns, key)
    \/ \E ns \in RecNamespaces : \E key \in LookupKeys :
          RecSetBefore(ns, key, RawEmptyProject)

SpecLookup == InitRec /\ [][NextLookup]_vars

(***************************************************************************)
(* JenkinsJobManager.gather (core.py lines 255-263) and what it calls.     *)
(* A gather state is [jobs, views, fetched, managed_job_urls, ok, err]; an *)
(* exception (ok = FALSE) ends the call where it is raised.                *)
(***************************************************************************)
job_managing_job_classes == {"jenkins.branch.OrganizationFolder"}

Range(seq) == {seq[i] : i \in 1..Len(seq)}

\* read_views, the loop body, lines 121-131.
ReadView(st, f, view_d) ==
    IF ~st.ok THEN st
    ELSE IF ~FilterCall(f, view_d.name) THEN st
    ELSE IF view_d.name \in {<<"A", "l", "l">>, <<"a", "l", "l">>} \/ view_d._class = "hudson.model.AllView"
    THEN st
    ELSE CHOOSE read \in
            {[st EXCEPT !.fetched = Append(@, [kind |-> "view", name |-> view_d.name]),
                        !.views = r.d, !.ok = r.ok, !.err = r.err] :
                r \in {SetBefore(st.views, view_d.name, view_d.config)}} : TRUE

RECURSIVE read_views(_, _, _)
read_views(st, f, view_list) ==
    IF view_list = <<>> THEN st
    ELSE read_views(ReadView(st, f, Head(view_list)), f, Tail(view_list))

\* jenkins.get_job_config(name); jobs[name].before_xml = job_conf, lines 156-157.
FetchJob(st, d) ==
    CHOOSE read \in
        {[st EXCEPT !.fetched = Append(@, [kind |-> "job", name |-> d.fullname]),
                    !.jobs = r.d, !.ok = r.ok, !.err = r.err] :
            r \in {SetBefore(st.jobs, d.fullname, d.config)}} : TRUE

\* A loop body that registers the children of an owning-kind entry and goes
\* on to the next entry without fetching it.
ReadJob_owner_skipped(st, f, d) ==
    IF ~st.ok THEN st
    ELSE IF ~FilterCall(f, d.fullname) THEN st
    ELSE IF d._class \in job_managing_job_classes
    THEN [st EXCEPT !.managed_job_urls = @ \cup Range(d.jobs)]
    ELSE IF d.url \in st.managed_job_urls
    THEN [st EXCEPT !.managed_job_urls = @ \cup Range(d.jobs)]
    ELSE FetchJob(st, d)

\* read_jobs, the loop body, lines 142-157.
ReadJob(st, f, d) ==
    IF ~st.ok THEN st
    ELSE IF ~FilterCall(f, d.fullname) THEN st
    ELSE IF d._class \in job_managing_job_classes
    THEN FetchJob([st EXCEPT !.managed_job_urls = @ \cup Range(d.jobs)], d)
    ELSE IF d.url \in st.managed_job_urls
    THEN [st EXCEPT !.managed_job_urls = @ \cup Range(d.jobs)]
    ELSE FetchJob(st, d)

RECURSIVE read_jobs(_, _, _)
read_jobs(st, f, job_list) ==
    IF job_list = <<>> THEN st
    ELSE read_jobs(ReadJob(st, f, Head(job_list)), f, Tail(job_list))

\* generate_jjb_xml, lines 231-247: the generated jobs, then the generated
\* views, each list filtered by name, written to after_xml.
\* A generation that is not restricted by the filter.
GenerateJob_unfiltered(st, f, job_data) ==
    IF ~st.ok THEN st
    ELSE CHOOSE generated \in
            {[st EXCEPT !.jobs = r.d, !.ok = r.ok, !.err = r.err] :
                r \in {SetAfter(st.jobs, job_data.name, job_data.xml)}} : TRUE

GenerateJob(st, f, job_data) ==
    IF ~st.ok THEN st
    ELSE IF ~FilterCall(f, job_data.name) THEN st
    ELSE CHOOSE generated \in
            {[st EXCEPT !.jobs = r.d, !.ok = r.ok, !.err = r.err] :
                r \in {SetAfter(st.jobs, job_data.name, job_data.xml)}} : TRUE

GenerateView(st, f, view_data) ==
    IF ~st.ok THEN st
    ELSE IF ~FilterCall(f, view_data.name) THEN st
    ELSE CHOOSE generated \in
            {[st EXCEPT !.views = r.d, !.ok = r.ok, !.err = r.err] :
                r \in {SetAfter(st.views, view_data.name, view_data.xml)}} : TRUE

RECURSIVE GenerateJobs(_, _, _)
GenerateJobs(st, f, job_data_list) ==
    IF job_data_list = <<>> THEN st
    ELSE GenerateJobs(GenerateJob(st, f, Head(job_data_list)), f, Tail(job_data_list))

RECURSIVE GenerateViews(_, _, _)
GenerateViews(st, f, view_data_list) ==
    IF view_data_list = <<>> THEN st
    ELSE GenerateViews(GenerateView(st, f, Head(view_data_list)), f,
                       Tail(view_data_list))

generate_jjb_xml(st, f, job_data_list, view_data_list) ==
    GenerateViews(GenerateJobs(st, f, job_data_list), f, view_data_list)

\* The filter gather leaves installed, lines 257-259: replaced only when the
\* argument is truthy (None and [] leave the installed filter as it is).
\* read_views(); read_jobs(); load_plugins_list(); generate_jjb_xml().
\* managed_job_urls is local to read_jobs and starts empty.
gather(f, jobs0, views0, view_list, job_list, job_data_list, view_data_list) ==
    generate_jjb_xml(
        read_jobs(
            read_views([jobs |-> jobs0, views |-> views0, fetched |-> <<>>,
                        managed_job_urls |-> {}, ok |-> TRUE, err |-> ""],
                       f, view_list),
            f, job_list),
        f, job_data_list, view_data_list)

\* How many times gather() is run on one orchestrator.
MaxGathers == 2

Gather(target_job_names) ==
    /\ gathers < MaxGathers
    /\ \E f \in {IF target_job_names # <<>> THEN from_glob_list(target_job_names)
                ELSE _jobs_filter_func} :
       \E st \in {gather(f, jobs, views, env_views, env_jobs, env_job_data,
                         env_view_data)} :
          /\ _jobs_filter_func' = f
          /\ jobs' = st.jobs
          /\ views' = st.views
          /\ fetched' = st.fetched
          /\ result' = [op |-> "gather", ok |-> st.ok, err |-> st.err]
    /\ gathers' = gathers + 1
    /\ UNCHANGED <<config, calls, assigned>>
    /\ UNCHANGED env_vars
    /\ UNCHANGED norm_vars

(***************************************************************************)
(* JenkinsJobManager.apply_plan (core.py lines 355-412).                   *)
(* An apply state is [calls, attempts, changecounts, ok, err]: the remote  *)
(* calls that returned, the number of remote calls issued, the counters.   *)
(* The remote call numbered fail_at raises (0: none does).                 *)
(***************************************************************************)
\* A remote call that is issued a second time after it returned.
RemoteCall_repeated(st, call, ct, fail_at) ==
    IF st.attempts + 1 = fail_at
    THEN [st EXCEPT !.attempts = @ + 1, !.ok = FALSE, !.err = "JenkinsException"]
    ELSE [st EXCEPT !.attempts = @ + 1, !.calls = Append(Append(@, call), call),
                    !.changecounts[ct] = @ + 1]

RemoteCall(st, call, ct, fail_at) ==
    IF st.attempts + 1 = fail_at
    THEN [st EXCEPT !.attempts = @ + 1, !.ok = FALSE, !.err = "JenkinsException"]
    ELSE [st EXCEPT !.attempts = @ + 1, !.calls = Append(@, call),
                    !.changecounts[ct] = @ + 1]

\* The body of either loop, lines 359-382 (kind "view") and 384-407 ("job").
ApplyRecord(st, cfg, kind, item, fail_at) ==
    IF ~st.ok THEN st
    ELSE LET ct == changetype(item)
         IN IF ct = NONE THEN st
            ELSE IF ct = CREATE
            THEN RemoteCall(st, [op |-> "create_" \o kind, name |-> item.name,
                                 xml |-> item._after], CREATE, fail_at)
            ELSE IF ct = UPDATE
            THEN RemoteCall(st, [op |-> "reconfig_" \o kind, name |-> item.name,
                                 xml |-> item._after], UPDATE, fail_at)
            ELSE IF ct = DELETE
            THEN IF "allow_delete" \notin DOMAIN cfg
                 THEN [st EXCEPT !.ok = FALSE, !.err = "AttributeError"]
                 ELSE IF cfg.allow_delete
                 THEN RemoteCall(st, [op |-> "delete_" \o kind, name |-> item.name,
                                      xml |-> NoneV], DELETE, fail_at)
                 ELSE [st EXCEPT !.changecounts[DELETE] = @ + 1]
            ELSE [st EXCEPT !.ok = FALSE, !.err = "RuntimeError"]

RECURSIVE ApplyRecords(_, _, _, _, _)
ApplyRecords(st, cfg, kind, d, fail_at) ==
    IF d = <<>> THEN st
    ELSE ApplyRecords(ApplyRecord(st, cfg, kind, Head(d), fail_at), cfg, kind,
                      Tail(d), fail_at)

\* The summary line, lines 408-411.
ApplyMsg(changecounts) ==
    <<"Changes applied. added=", changecounts[CREATE], " updated=",
      changecounts[UPDATE], " deleted=", changecounts[DELETE]>>

\* The two loops in the other order: jobs first, then views.
apply_plan_jobs_first(cfg, views0, jobs0, fail_at) ==
    ApplyRecords(
        ApplyRecords([calls |-> <<>>, attempts |-> 0,
                      changecounts |-> [c \in {CREATE, UPDATE, DELETE} |-> 0],
                      ok |-> TRUE, err |-> ""],
                     cfg, "job", jobs0, fail_at),
        cfg, "view", views0, fail_at)

\* Views first, then jobs, each in the dict's order.
apply_plan(cfg, views0, jobs0, fail_at) ==
    ApplyRecords(
        ApplyRecords([calls |-> <<>>, attempts |-> 0,
                      changecounts |-> [c \in {CREATE, UPDATE, DELETE} |-> 0],
                      ok |-> TRUE, err |-> ""],
                     cfg, "view", views0, fail_at),
        cfg, "job", jobs0, fail_at)

\* The remote calls one apply_plan may see fail are numbered 1..MaxFailAt.
MaxFailAt == 2

\* An apply_plan that records what it has applied: every record's before
\* becomes its after.
ApplyPlan_syncing(fail_at) ==
    /\ \E st \in {apply_plan(config, views, jobs, fail_at)} :
          /\ calls' = st.calls
          /\ result' = IF st.ok
                       THEN [op |-> "apply_plan", ok |-> TRUE, err |-> "",
                             value |-> <<st.changecounts, ApplyMsg(st.changecounts)>>]
                       ELSE [op |-> "apply_plan", ok |-> FALSE, err |-> st.err,
                             value |-> <<>>]
          /\ jobs' = IF st.ok THEN [i \in 1..Len(jobs) |->
                                       [jobs[i] EXCEPT !._before = jobs[i]._after]]
                     ELSE jobs
          /\ views' = IF st.ok THEN [i \in 1..Len(views) |->
                                        [views[i] EXCEPT !._before = views[i]._after]]
                      ELSE views
    /\ UNCHANGED <<config, _jobs_filter_func, fetched, gathers, assigned>>
    /\ UNCHANGED env_vars
    /\ UNCHANGED norm_vars

\* On return the value is (changecounts, msg); an exception carries neither.
ApplyPlan(fail_at) ==
    /\ \E st \in {apply_plan(config, views, jobs, fail_at)} :
          /\ calls' = st.calls
          /\ result' = IF st.ok
                       THEN [op |-> "apply_plan", ok |-> TRUE, err |-> "",
                             value |-> <<st.changecounts, ApplyMsg(st.changecounts)>>]
                       ELSE [op |-> "apply_plan", ok |-> FALSE, err |-> st.err,
                             value |-> <<>>]
    /\ UNCHANGED <<config, jobs, views, _jobs_filter_func, fetched, gathers, assigned>>
    /\ UNCHANGED env_vars
    /\ UNCHANGED norm_vars

(***************************************************************************)
(* The reconciliation cycle: a jenkins server and a set of generated       *)
(* definitions, then gather and apply_plan in any order.                   *)
(***************************************************************************)
JobNames == {<<"a">>, <<"b">>}

AllViewEntry ==
    [name |-> <<"A", "l", "l">>, _class |-> "hudson.model.AllView",
     config |-> RawEmptyProject]

\* Every list of at most two entries with different names.
ListsOf(entries, NameOf(_)) ==
    {<<>>} \cup {<<e>> : e \in entries}
           \cup {<<pair[1], pair[2]>> :
                    pair \in {q \in entries \X entries : NameOf(q[1]) # NameOf(q[2])}}

FlatJobLists ==
    ListsOf({[fullname |-> n, url |-> <<"url:">> \o n,
              _class |-> "hudson.model.FreeStyleProject", jobs |-> <<>>, config |-> c] :
                 n \in JobNames, c \in RemoteDocs},
            LAMBDA e : e.fullname)

FlatJobData ==
    ListsOf({[name |-> n, xml |-> c] : n \in JobNames, c \in DesiredDocs},
            LAMBDA e : e.name)

FlatViewLists ==
    {<<AllViewEntry>>}
        \cup {<<AllViewEntry,
                 [name |-> <<"v">>, _class |-> "hudson.model.ListView", config |-> c]>> :
                    c \in RemoteDocs}

FlatViewData ==
    {<<>>} \cup {<<[name |-> <<"v">>, xml |-> c]>> : c \in DesiredDocs}

\* gather(), gather(["a"]), gather(["b*", "v"])
Targets == {<<>>, <<<<"a">>>>, <<<<"b", "*">>, <<"v">>>>}

Init ==
    /\ NewManager
    /\ NoDocument
    /\ env_views \in FlatViewLists
    /\ env_jobs \in FlatJobLists
    /\ env_view_data \in FlatViewData
    /\ env_job_data \in FlatJobData

Next ==
    \/ \E target_job_names \in Targets : Gather(target_job_names)
    \/ \E fail_at \in 0..MaxFailAt : ApplyPlan(fail_at)

Spec == Init /\ [][Next]_vars

(***************************************************************************)
(* The apply command (cli.py lines 520-535), with check_auth and           *)
(* handle_plan_report (lines 481-508).  The command stops at each call     *)
(* whose outcome it branches on; result holds its position, the calls it   *)
(* has made with their outcomes, and the remote calls issued before it     *)
(* started.                                                                *)
(***************************************************************************)
\* A command that applies whatever the answer to the confirmation is.
jjb_apply_unconfirmed(pc, outcome) ==
    CASE pc = "check_auth" -> IF outcome THEN "gather" ELSE "exit"
      [] pc = "gather" -> "detected_changes"
      [] pc = "detected_changes" -> IF outcome THEN "handle_plan_report" ELSE "exit"
      [] pc = "handle_plan_report" -> "confirm"
      [] pc = "confirm" -> "apply_plan"
      [] pc = "apply_plan" -> "exit"

\* Where jjb_apply goes after the call at pc had the given outcome: Exit(1)
\* on a bad login, return when nothing changed, Abort when declined.
jjb_apply(pc, outcome) ==
    CASE pc = "check_auth" -> IF outcome THEN "gather" ELSE "exit"
      [] pc = "gather" -> "detected_changes"
      [] pc = "detected_changes" -> IF outcome THEN "handle_plan_report" ELSE "exit"
      [] pc = "handle_plan_report" -> "confirm"
      [] pc = "confirm" -> IF outcome THEN "apply_plan" ELSE "exit"
      [] pc = "apply_plan" -> "exit"

\* The command after the call at its position had the given outcome.
Advance(call, outcome) ==
    [result EXCEPT !.pc = jjb_apply(result.pc, outcome),
                   !.steps = Append(@, [call |-> call, outcome |-> outcome])]

\* check_auth(obj): obj.check_authentication() answers authenticated
CmdCheckAuth(authenticated) ==
    /\ IF result.op = "jjb_apply" THEN result.pc = "exit" ELSE TRUE
    /\ gathers < MaxGathers
    /\ result' = [op |-> "jjb_apply", ok |-> TRUE, err |-> "",
                  pc |-> jjb_apply("check_auth", authenticated),
                  steps |-> <<[call |-> "check_auth", outcome |-> authenticated]>>,
                  calls0 |-> calls]
    /\ UNCHANGED <<config, jobs, views, _jobs_filter_func, fetched, calls, gathers,
                   assigned>>
    /\ UNCHANGED env_vars
    /\ UNCHANGED norm_vars

\* obj.gather() of cli.py lines 311-315: read_jobs, load_plugins_list,
\* generate_jjb_xml; no view is read and no name is filtered.
CmdGather ==
    /\ result.op = "jjb_apply"
    /\ result.pc = "gather"
    /\ \E st \in {gather(_jobs_filter_func, jobs, views, <<>>, env_jobs, env_job_data,
                         env_view_data)} :
          /\ jobs' = st.jobs
          /\ views' = st.views
          /\ fetched' = st.fetched
          /\ result' = IF st.ok THEN Advance("gather", TRUE)
                       ELSE [Advance("gather", FALSE) EXCEPT !.pc = "exit", !.ok = FALSE,
                                                            !.err = st.err]
    /\ gathers' = gathers + 1
    /\ UNCHANGED <<config, _jobs_filter_func, calls, assigned>>
    /\ UNCHANGED env_vars
    /\ UNCHANGED norm_vars

\* if not obj.detected_changes(): "No changes to apply."; return
CmdDetectedChanges ==
    /\ result.op = "jjb_apply"
    /\ result.pc = "detected_changes"
    /\ result' = Advance("detected_changes", detected_changes(jobs, views))
    /\ UNCHANGED <<config, jobs, views, _jobs_filter_func, fetched, calls, gathers,
                   assigned>>
    /\ UNCHANGED env_vars
    /\ UNCHANGED norm_vars

\* handle_plan_report(obj, use_pager=False): the report's lines are echoed
\* one by one; the outcome is whether the pager was used.
CmdPlanReport ==
    /\ result.op = "jjb_apply"
    /\ result.pc = "handle_plan_report"
    /\ result' = Advance("handle_plan_report", FALSE)
    /\ UNCHANGED <<config, jobs, views, _jobs_filter_func, fetched, calls, gathers,
                   assigned>>
    /\ UNCHANGED env_vars
    /\ UNCHANGED norm_vars

\* click.confirm("Apply changes?", abort=True)
CmdConfirm(answer) ==
    /\ result.op = "jjb_apply"
    /\ result.pc = "confirm"
    /\ result' = Advance("confirm", answer)
    /\ UNCHANGED <<config, jobs, views, _jobs_filter_func, fetched, calls, gathers,
                   assigned>>
    /\ UNCHANGED env_vars
    /\ UNCHANGED norm_vars

\* obj.apply_plan() of cli.py lines 358-402: as apply_plan with deletion
\* allowed; an exception of a remote call ends the command.
CmdApplyPlan(fail_at) ==
    /\ result.op = "jjb_apply"
    /\ result.pc = "apply_plan"
    /\ \E st \in {apply_plan([allow_delete |-> TRUE], views, jobs, fail_at)} :
          /\ calls' = calls \o st.calls
          /\ result' = [Advance("apply_plan", st.ok) EXCEPT !.ok = st.ok, !.err = st.err]
    /\ UNCHANGED <<config, jobs, views, _jobs_filter_func, fetched, gathers, assigned>>
    /\ UNCHANGED env_vars
    /\ UNCHANGED norm_vars

NextCmd ==
    \/ \E authenticated \in BOOLEAN : CmdCheckAuth(authenticated)
    \/ CmdGather
    \/ CmdDetectedChanges
    \/ CmdPlanReport
    \/ \E answer \in BOOLEAN : CmdConfirm(answer)
    \/ \E fail_at \in 0..MaxFailAt : CmdApplyPlan(fail_at)

SpecCmd == Init /\ [][NextCmd]_vars

(***************************************************************************)
(* Planning: everything an orchestrator does before apply_plan, in any     *)
(* order with it.                                                          *)
(***************************************************************************)
\* iter_changes(xml_dict, output) for the json and yaml formats, core.py
\* lines 330-337: one item per changed record.
RECURSIVE iter_changes_output(_)
iter_changes_output(xml_dict) ==
    IF xml_dict = <<>> THEN <<>>
    ELSE LET item == Head(xml_dict)
         IN (IF changetype(item) = NONE THEN <<>>
             ELSE <<[name |-> item.name, before |-> item._before, after |-> item._after,
                     difflines |-> difflines(item), md |-> extract_md(item),
                     changetype |-> changetype(item)]>>)
                \o iter_changes_output(Tail(xml_dict))

\* list(plan_report(report_format)) for "json" and "yaml": what the two
\* generators yield to the template, the views' lines and the jobs' items.
PlanReportAs(report_format) ==
    /\ result' = [op |-> "plan_report", ok |-> TRUE, err |-> "",
                  report_format |-> report_format,
                  view_changes |-> iter_changes(views, [t \in {CREATE, UPDATE, DELETE} |-> <<>>]).lines,
                  job_changes |-> iter_changes_output(jobs)]
    /\ UNCHANGED <<config, jobs, views, _jobs_filter_func, fetched, calls, gathers,
                   assigned>>
    /\ UNCHANGED env_vars
    /\ UNCHANGED norm_vars

\* A plan command that goes on to apply what it has planned.
JjbPlan_applying(authenticated) ==
    /\ gathers < MaxGathers
    /\ \E st \in {gather(_jobs_filter_func, jobs, views, <<>>, env_jobs, env_job_data,
                         env_view_data)} :
          /\ jobs' = st.jobs
          /\ views' = st.views
          /\ fetched' = st.fetched
          /\ calls' = apply_plan([allow_delete |-> TRUE], st.views, st.jobs, 0).calls
          /\ result' = [op |-> "jjb_plan", ok |-> st.ok, err |-> st.err, exit_code |-> 0,
                        output |-> <<>>]
    /\ gathers' = gathers + 1
    /\ UNCHANGED <<config, _jobs_filter_func, assigned>>
    /\ UNCHANGED env_vars
    /\ UNCHANGED norm_vars

\* The plan command (cli.py lines 511-517): check_auth, which exits with 1 on
\* a bad login; gather, which in cli.py reads no view and filters no name;
\* handle_plan_report(obj, use_pager=True), lines 489-508.
JjbPlan(authenticated) ==
    /\ gathers < MaxGathers
    /\ IF ~authenticated
       THEN /\ result' = [op |-> "jjb_plan", ok |-> TRUE, err |-> "", exit_code |-> 1,
                          output |-> <<"Try the login subcommand">>]
            /\ UNCHANGED <<jobs, views, fetched>>
       ELSE \E st \in {gather(_jobs_filter_func, jobs, views, <<>>, env_jobs, env_job_data,
                              env_view_data)} :
               /\ jobs' = st.jobs
               /\ views' = st.views
               /\ fetched' = st.fetched
               /\ result' = [op |-> "jjb_plan", ok |-> st.ok, err |-> st.err,
                             exit_code |-> IF st.ok THEN 0 ELSE 1,
                             output |-> IF ~st.ok THEN <<>>
                                        ELSE IF detected_changes(st.jobs, st.views)
                                        THEN plan_report(st.views, st.jobs).lines
                                        ELSE <<"No changes.">>]
    /\ gathers' = gathers + 1
    /\ UNCHANGED <<config, _jobs_filter_func, calls, assigned>>
    /\ UNCHANGED env_vars
    /\ UNCHANGED norm_vars

NextPlan ==
    \/ \E target_job_names \in {<<>>, <<<<"a">>>>} : Gather(target_job_names)
    \/ DetectedChanges
    \/ ValidateMetadata
    \/ PlanReport
    \/ \E report_format \in {"json", "yaml"} : PlanReportAs(report_format)
    \/ \E authenticated \in BOOLEAN : JjbPlan(authenticated)
    \/ ApplyPlan(0)

\* A server and a generator of at most one job each.
InitPlan == Init /\ Len(env_jobs) <= 1 /\ Len(env_job_data) <= 1

SpecPlan == InitPlan /\ [][NextPlan]_vars

(***************************************************************************)
(* Current-state ingestion over a tree of jobs: get_all_jobs() lists every *)
(* job with its children ("jobs"), a parent before its children.           *)
(***************************************************************************)
\* The most jobs the server lists.
MaxJobs == 4

\* p[i] is the parent of job i (0: top level); a parent is listed earlier.
TreeShapes(n) == {p \in [1..n -> 0..n] : \A i \in 1..n : p[i] < i}

RECURSIVE TreeFullName(_, _)
TreeFullName(p, i) ==
    LET label == <<"a", "b", "c", "d", "e", "f">>[i]
    IN IF p[i] = 0 THEN <<label>> ELSE TreeFullName(p, p[i]) \o <<"/", label>>

RECURSIVE TreeChildUrls(_, _, _, _)
TreeChildUrls(p, i, j, n) ==
    IF j > n THEN <<>>
    ELSE IF p[j] = i THEN <<(<<"url:">> \o TreeFullName(p, j))>> \o TreeChildUrls(p, i, j + 1, n)
    ELSE TreeChildUrls(p, i, j + 1, n)

\* Every tree of up to MaxJobs jobs, each of one of the two owning kinds.
TreeJobLists ==
    UNION {{[i \in 1..n |->
                [fullname |-> TreeFullName(p, i), url |-> (<<"url:">> \o TreeFullName(p, i)), _class |-> k[i],
                 jobs |-> TreeChildUrls(p, i, 1, n), config |-> RawEmptyProject]] :
                p \in TreeShapes(n),
                k \in [1..n -> {"jenkins.branch.OrganizationFolder",
                                "com.cloudbees.hudson.plugins.folder.Folder"}]} :
              n \in 1..MaxJobs}

\* gather(), gather(["a"]), gather(["a/*"]), gather(["*b"])
TreeTargets == {<<>>, <<<<"a">>>>, <<<<"a", "/", "*">>>>, <<<<"*", "b">>>>}

InitOwn ==
    /\ NewManager
    /\ NoDocument
    /\ env_views = <<AllViewEntry>>
    /\ env_jobs \in TreeJobLists
    /\ env_view_data = <<>>
    /\ env_job_data = <<>>

NextOwn == \E target_job_names \in TreeTargets : Gather(target_job_names)

SpecOwn == InitOwn /\ [][NextOwn]_vars

(***************************************************************************)
(* Properties.                                                             *)
(***************************************************************************)
ViewCallOps == {"create_view", "reconfig_view", "delete_view"}

JobCallOps == {"create_job", "reconfig_job", "delete_job"}

DeleteCallOps == {"delete_view", "delete_job"}

\* The records of both Change Sets, each with the kind of its namespace.
KindRecords ==
    {[kind |-> "view", xc |-> views[i]] : i \in 1..Len(views)}
        \cup {[kind |-> "job", xc |-> jobs[i]] : i \in 1..Len(jobs)}

\* The positions in calls of the remote calls made for the record name of a kind.
CallsFor(kind, name) ==
    {i \in 1..Len(calls) :
        /\ calls[i].name = name
        /\ calls[i].op \in {"create_" \o kind, "reconfig_" \o kind, "delete_" \o kind}}

\* How many records of both Change Sets have the change type ct.
CountOf(ct) == Cardinality({r \in KindRecords : changetype(r.xc) = ct})

\* The last operation was an apply_plan in which no remote call failed.
ApplyWithoutRemoteFailure ==
    result.op = "apply_plan" /\ result.err # "JenkinsException"

\* The urls excluded by ownership in an enumeration that lists a parent before
\* its children: the declared children of every owning-kind entry and of
\* every excluded entry.
RECURSIVE ExcludedUrls(_, _)
ExcludedUrls(job_list, acc) ==
    IF job_list = <<>> THEN acc
    ELSE IF Head(job_list)._class \in job_managing_job_classes
            \/ Head(job_list).url \in acc
         THEN ExcludedUrls(Tail(job_list), acc \cup Range(Head(job_list).jobs))
         ELSE ExcludedUrls(Tail(job_list), acc)

\* The urls of the declared children of the owning-kind entries.
OwnedUrls(job_list) ==
    UNION {Range(job_list[i].jobs) :
              i \in {j \in 1..Len(job_list) :
                        job_list[j]._class \in job_managing_job_classes}}

WasFetched(d) == [kind |-> "job", name |-> d.fullname] \in Range(fetched)

\* C1: for every record that any sequence of before/after assignments
\* reaches, changetype() is one of NONE, CREATE, UPDATE, DELETE, and it is
\* NONE iff the stored before equals the stored after (both absent included),
\* CREATE iff before is absent and after present, DELETE iff before is present
\* and after absent, UPDATE iff both are present and differ.
C1_ChangetypeClassifies ==
    \A r \in KindRecords :
        LET ct == changetype(r.xc)
            hasBefore == ~r.xc._before.isNone
            hasAfter == ~r.xc._after.isNone
        IN /\ ct \in {NONE, CREATE, UPDATE, DELETE}
           /\ (ct = NONE) <=> (r.xc._before = r.xc._after)
           /\ (ct = CREATE) <=> (~hasBefore /\ hasAfter)
           /\ (ct = DELETE) <=> (hasBefore /\ ~hasAfter)
           /\ (ct = UPDATE) <=> (hasBefore /\ hasAfter /\ r.xc._before # r.xc._after)

\* Assignments have produced an UPDATE record in one namespace and a DELETE
\* record in the other.
C1_Witness ==
    /\ \E i \in 1..Len(jobs) : changetype(jobs[i]) = UPDATE
    /\ \E i \in 1..Len(views) : changetype(views[i]) = DELETE

\* C2: in an apply_plan run (delete-protection being on: no configuration
\* turns it off) no delete_view or delete_job call is made, and a DELETE
\* record is skipped: unless a remote call fails, the run goes on to its end
\* and returns.
C2_DeleteSkipped ==
    ApplyWithoutRemoteFailure =>
        /\ \A i \in 1..Len(calls) : calls[i].op \notin DeleteCallOps
        /\ result.ok

\* C3: in one apply_plan run every remote call for a view precedes every
\* remote call for a job, and the calls of one namespace are in the insertion
\* order of its Change Set, whatever their change types.
C3_ViewsBeforeJobsInOrder ==
    result.op = "apply_plan" =>
        \A i, j \in 1..Len(calls) :
            i < j =>
                /\ ~(calls[i].op \in JobCallOps /\ calls[j].op \in ViewCallOps)
                /\ (calls[i].op \in ViewCallOps /\ calls[j].op \in ViewCallOps)
                       => IndexOf(views, calls[i].name) < IndexOf(views, calls[j].name)
                /\ (calls[i].op \in JobCallOps /\ calls[j].op \in JobCallOps)
                       => IndexOf(jobs, calls[i].name) < IndexOf(jobs, calls[j].name)

\* An apply_plan run has called for a view and then for two jobs, one created
\* and one updated, the second job sorting before the first by name.
C3_Witness ==
    /\ result.op = "apply_plan"
    /\ Len(calls) = 3
    /\ calls[1].op \in ViewCallOps
    /\ {calls[2].op, calls[3].op} = {"create_job", "reconfig_job"}
    /\ calls[2].name = <<"b">>
    /\ calls[3].name = <<"a">>

\* C4: in a successful apply_plan run a CREATE record has exactly one remote
\* call, create(name, after), an UPDATE record exactly one, update(name,
\* after), after being the record's stored canonical after; a record whose
\* change type is NONE has no remote call.
C4_OneCallPerChange ==
    (result.op = "apply_plan" /\ result.ok) =>
        \A r \in KindRecords :
            LET ct == changetype(r.xc)
                cs == CallsFor(r.kind, r.xc.name)
            IN /\ ct = CREATE =>
                    \E i \in cs :
                        /\ cs = {i}
                        /\ calls[i] = [op |-> "create_" \o r.kind, name |-> r.xc.name,
                                       xml |-> r.xc._after]
               /\ ct = UPDATE =>
                    \E i \in cs :
                        /\ cs = {i}
                        /\ calls[i] = [op |-> "reconfig_" \o r.kind, name |-> r.xc.name,
                                       xml |-> r.xc._after]
               /\ ct = NONE => cs = {}

\* A successful apply_plan run over a CREATE record, an UPDATE record and a
\* record without change.
C4_Witness ==
    /\ result.op = "apply_plan"
    /\ result.ok
    /\ \A ct \in {CREATE, UPDATE, NONE} : \E r \in KindRecords : changetype(r.xc) = ct

\* C5: apply_plan returns the counts of the CREATE, UPDATE and DELETE records
\* of views and jobs together, and the summary line with the same numbers; a
\* DELETE record that is skipped is counted as deleted.
C5_ReturnedCounts ==
    ApplyWithoutRemoteFailure =>
        /\ result.ok
        /\ result.value =
              <<[ct \in {CREATE, UPDATE, DELETE} |-> CountOf(ct)],
                ApplyMsg([ct \in {CREATE, UPDATE, DELETE} |-> CountOf(ct)])>>

\* C6: with the match-all filter and a parent-before-child enumeration,
\* read_jobs neither fetches nor adds to the jobs Change Set an entry that is
\* a declared child of an owning-kind entry or of an excluded entry.
C6_OwnershipExclusion ==
    (result.op = "gather" /\ gathers = 1
        /\ _jobs_filter_func = NameRegexFilter(DotStar)) =>
        \A i \in 1..Len(env_jobs) :
            env_jobs[i].url \in ExcludedUrls(env_jobs, {}) =>
                /\ ~WasFetched(env_jobs[i])
                /\ ~HasKey(jobs, env_jobs[i].fullname)

\* C7: whatever target patterns gather is given, a declared child of an
\* owning-kind entry (here: a child that is not itself of the owning kind)
\* is neither fetched nor ingested, also when the patterns match the child's
\* name and not its parent's.
C7_ExclusionUnderPatterns ==
    (result.op = "gather" /\ gathers = 1) =>
        \A i \in 1..Len(env_jobs) :
            (/\ env_jobs[i].url \in OwnedUrls(env_jobs)
             /\ env_jobs[i]._class \notin job_managing_job_classes) =>
                /\ ~WasFetched(env_jobs[i])
                /\ ~HasKey(jobs, env_jobs[i].fullname)

\* C8: xml_normalize is idempotent: for a well-formed document x,
\* xml_normalize(xml_normalize(x)) = xml_normalize(x).
C8_Idempotent == Len(ny) >= 2 => ny[2] = ny[1]

\* C9: two well-formed documents that differ only by a permutation of the
\* children of an allow-listed container have the same canonical form, and a
\* record holding one as before and the other as after has no change.
C9_ChildOrderInsensitive ==
    (perm_out # NoneV /\ Len(ny) >= 1) =>
        /\ perm_out = ny[1]
        /\ changetype([name |-> <<"a">>, _before |-> ny[1], _after |-> perm_out]) = NONE

\* C10: a record's before and after are each absent, or the canonical form
\* of the raw value last assigned to the field and not that raw value: a
\* non-empty string that xml_normalize maps to itself.
C10_StoredCanonical ==
    \A ns \in RecNamespaces :
        \A i \in 1..Len(ChangeSet(ns)) :
            \A fld \in {"_before", "_after"} :
                LET stored == ChangeSet(ns)[i][fld]
                    raw == assigned[<<ns, ChangeSet(ns)[i].name, fld>>]
                IN \/ stored.isNone
                   \/ /\ stored = xml_normalize(raw).val
                      /\ stored # raw
                      /\ stored.s # <<>>
                      /\ xml_normalize(stored).val = stored

\* C11 as stated: assigning None to before_xml or after_xml of a record
\* clears the field, which is then absent.
C11_AssignNoneClears ==
    [][\A ns \in RecNamespaces : \A key \in RecKeys :
          HasKey(ChangeSet(ns), key) =>
              /\ RecSetBefore(ns, key, NoneV) =>
                    ChangeSet(ns)'[IndexOf(ChangeSet(ns), key)]._before = NoneV
              /\ RecSetAfter(ns, key, NoneV) =>
                    ChangeSet(ns)'[IndexOf(ChangeSet(ns), key)]._after = NoneV]_vars

\* C11 as amended: assigning None to before_xml or after_xml raises, and
\* stores nothing: the Change Set is as the lookup of the key alone leaves
\* it, so every field keeps the value it had.
C11_AssignNoneRaises ==
    [][\A ns \in RecNamespaces : \A key \in RecKeys :
          (RecSetBefore(ns, key, NoneV) \/ RecSetAfter(ns, key, NoneV)) =>
              /\ ~result'.ok
              /\ result'.err \in {"TypeError", "ValueError"}
              /\ ChangeSet(ns)' = GetItem(ChangeSet(ns), key).d
              /\ assigned' = assigned]_vars

\* None was assigned (TypeError) to before_xml of a record that held a value,
\* and the record still holds it.
C11_Witness ==
    /\ result.op = "before_xml"
    /\ result.err = "TypeError"
    /\ \E i \in 1..Len(jobs) : ~jobs[i]._before.isNone

\* C12: creating a record with an empty or absent name fails with an error
\* and yields no record; a Change Set lookup with an empty key fails and
\* inserts no entry, so no Change Set ever holds a record without a name.
C12_EmptyNameFails ==
    /\ [](\A r \in KindRecords : r.xc.name # <<>>)
    /\ []((result.op = "XmlChange" /\ ~Truthy(result.name)) =>
             (~result.ok /\ result.err = "ValueError" /\ result.value = <<>>))
    /\ [][\A ns \in RecNamespaces :
             RecLookup(ns, <<>>) =>
                 /\ ~result'.ok
                 /\ result'.err = "ValueError"
                 /\ jobs' = jobs
                 /\ views' = views]_vars

\* A lookup with the empty key has failed on a Change Set that holds a record.
C12_Witness ==
    /\ result.op = "__getitem__"
    /\ result.err = "ValueError"
    /\ jobs # <<>>

\* C13: the lookup of a name not yet in a Change Set appends one record with
\* that name and both fields absent after the existing entries; the lookup of
\* a name already there changes nothing (it is the same record, fields
\* included); a Change Set holds one record per name; an assignment through a
\* lookup keeps the order of the entries; and what is done in one namespace
\* leaves the other as it is.
C13_AutoVivification ==
    /\ [](\A ns \in RecNamespaces :
             \A i, j \in 1..Len(ChangeSet(ns)) :
                 ChangeSet(ns)[i].name = ChangeSet(ns)[j].name => i = j)
    /\ [][\A ns \in RecNamespaces : \A key \in LookupKeys \ {<<>>} :
             /\ RecLookup(ns, key) =>
                   /\ result'.ok
                   /\ ChangeSet(ns)' =
                         IF HasKey(ChangeSet(ns), key) THEN ChangeSet(ns)
                         ELSE Append(ChangeSet(ns),
                                     [name |-> key, _before |-> NoneV, _after |-> NoneV])
             /\ RecSetBefore(ns, key, RawEmptyProject) =>
                   Keys(ChangeSet(ns))' =
                         IF HasKey(ChangeSet(ns), key) THEN Keys(ChangeSet(ns))
                         ELSE Append(Keys(ChangeSet(ns)), key)
             /\ (RecLookup(ns, key) \/ RecSetBefore(ns, key, RawEmptyProject)) =>
                   \A other \in RecNamespaces \ {ns} : ChangeSet(other)' = ChangeSet(other)
      ]_vars

\* jobs was referenced by "b", then by "a"; views by "a" only; the last
\* operation was the lookup of a key that was already there, after a value
\* had been assigned to its record.
C13_Witness ==
    /\ Keys(jobs) = <<<<"b">>, <<"a">>>>
    /\ Keys(views) = <<<<"a">>>>
    /\ result.op = "__getitem__"
    /\ result.ok
    /\ ~jobs[1]._before.isNone

\* C14: detected_changes() is true iff some record of jobs or of views has a
\* change type other than NONE, which is iff its stored before and after
\* differ; records with both fields absent never make it true.
C14_DetectedChanges ==
    result.op = "detected_changes" =>
        /\ result.value <=> (\E r \in KindRecords : changetype(r.xc) # NONE)
        /\ result.value <=> (\E r \in KindRecords : r.xc._before # r.xc._after)
        /\ (\A r \in KindRecords : r.xc._before.isNone /\ r.xc._after.isNone)
               => ~result.value

\* detected_changes() has answered true for a changed view while the jobs
\* hold a record that was only looked up.
C14_Witness ==
    /\ result.op = "detected_changes"
    /\ result.value
    /\ \E i \in 1..Len(jobs) : jobs[i]._before.isNone /\ jobs[i]._after.isNone
    /\ \A i \in 1..Len(jobs) : changetype(jobs[i]) = NONE
    /\ views # <<>>

\* A glob matches the whole of a name: "*" stands for any run of characters,
\* "?" for any one character, any other character for itself.
RECURSIVE GlobMatch(_, _)
GlobMatch(pat, name) ==
    IF pat = <<>> THEN name = <<>>
    ELSE IF Head(pat) = "*"
         THEN \E k \in 0..Len(name) : GlobMatch(Tail(pat), SubSeq(name, k + 1, Len(name)))
    ELSE IF name = <<>> THEN FALSE
    ELSE IF Head(pat) = "?" THEN GlobMatch(Tail(pat), Tail(name))
    ELSE Head(pat) = Head(name) /\ GlobMatch(Tail(pat), Tail(name))

\* C15: a filter built from a list of globs matches a name iff one of the
\* globs matches the whole name; a filter built from no globs and the filter
\* the constructor installs match every name.
C15_FilterFullMatch ==
    result.op = "__call__" =>
        /\ \A globs \in GlobLists \ {<<>>} :
              _jobs_filter_func = from_glob_list(globs) =>
                  (result.value <=>
                      \E i \in 1..Len(globs) : GlobMatch(globs[i], result.name))
        /\ _jobs_filter_func = from_glob_list(<<>>) => result.value
        /\ _jobs_filter_func = NameRegexFilter(DotStar) => result.value

\* The filter built from ["foo*", "bar"] has rejected "baz".
C15_Witness ==
    /\ _jobs_filter_func = from_glob_list(<<<<"f", "o", "o", "*">>, <<"b", "a", "r">>>>)
    /\ result.op = "__call__"
    /\ result.name = <<"b", "a", "z">>
    /\ ~result.value

\* C16: after the first gather on an orchestrator, every record of jobs and
\* of views has a name the installed filter matches: nothing was fetched for
\* and nothing generated was written to a name the filter rejects, the one
\* filter scoping the read of the current state and the generation.
C16_GatherScopedByFilter ==
    (result.op = "gather" /\ gathers = 1) =>
        /\ \A r \in KindRecords : FilterCall(_jobs_filter_func, r.xc.name)
        /\ \A i \in 1..Len(fetched) : FilterCall(_jobs_filter_func, fetched[i].name)
        /\ \A i \in 1..Len(env_jobs) :
              ~FilterCall(_jobs_filter_func, env_jobs[i].fullname)
                  => ~HasKey(jobs, env_jobs[i].fullname)
        /\ \A i \in 1..Len(env_job_data) :
              ~FilterCall(_jobs_filter_func, env_job_data[i].name)
                  => ~HasKey(jobs, env_job_data[i].name)
        /\ \A i \in 1..Len(env_view_data) :
              ~FilterCall(_jobs_filter_func, env_view_data[i].name)
                  => ~HasKey(views, env_view_data[i].name)

\* gather(["a"]) has run first: the server and the generator both have a job
\* "b" and a view "v", which the filter rejects, and job "a" was read and
\* generated.
C16_Witness ==
    /\ result.op = "gather"
    /\ gathers = 1
    /\ _jobs_filter_func = from_glob_list(<<<<"a">>>>)
    /\ \E i \in 1..Len(env_jobs) : env_jobs[i].fullname = <<"b">>
    /\ \E i \in 1..Len(env_job_data) : env_job_data[i].name = <<"b">>
    /\ \E i \in 1..Len(env_view_data) : env_view_data[i].name = <<"v">>
    /\ Len(env_views) = 2
    /\ \E i \in 1..Len(jobs) :
          jobs[i].name = <<"a">> /\ ~jobs[i]._before.isNone /\ ~jobs[i]._after.isNone

\* How many entries of the sequence seq satisfy P.
CountIn(seq, P(_)) == Cardinality({i \in 1..Len(seq) : P(seq[i])})

\* The allow-list configured for a field: <<>> when there is none, <<list>>
\* otherwise.
AllowListOf(md_conf, field) == md_conf.metadata_conf[ValidValuesKey(field)]

\* The field is required, present in md, and its value is not in the
\* allow-list configured for it.
InvalidIn(md_conf, md, field) ==
    /\ field \in Range(md_conf.required_fields)
    /\ md[field] # <<>>
    /\ AllowListOf(md_conf, field) # <<>>
    /\ md[field][1] \notin Range(AllowListOf(md_conf, field)[1])

\* C17 as stated: validate yields exactly one warning for each required field
\* missing from the mapping, exactly one for each required field present with
\* a value outside its allow-list, and nothing else.
C17_OneWarningPerField ==
    result.op = "validate" =>
        /\ \A f \in MdFields :
              /\ CountIn(result.value, LAMBDA w : w = MissingWarning(f)) =
                    IF f \in Range(config.metadata.required_fields) /\ result.md[f] = <<>>
                    THEN 1 ELSE 0
              /\ CountIn(result.value, LAMBDA w : w[1] = "Field " /\ w[2] = f) =
                    IF InvalidIn(config.metadata, result.md, f) THEN 1 ELSE 0
        /\ Len(result.value) =
              Cardinality({f \in Range(config.metadata.required_fields) :
                              result.md[f] = <<>>})
              + Cardinality({f \in MdFields : InvalidIn(config.metadata, result.md, f)})

\* What validate does (C17): it yields one warning for each entry of the
\* required list whose field is missing from the mapping, so two for a field
\* the list names twice, exactly one for each required field present with a
\* value outside its allow-list, and nothing else; with no policy configured
\* it yields nothing.
C17_OneWarningPerEntry ==
    result.op = "validate" =>
        /\ \A f \in MdFields :
              /\ CountIn(result.value, LAMBDA w : w = MissingWarning(f)) =
                    IF result.md[f] = <<>>
                    THEN CountIn(config.metadata.required_fields, LAMBDA g : g = f)
                    ELSE 0
              /\ CountIn(result.value, LAMBDA w : w[1] = "Field " /\ w[2] = f) =
                    IF InvalidIn(config.metadata, result.md, f) THEN 1 ELSE 0
        /\ Len(result.value) =
              CountIn(config.metadata.required_fields, LAMBDA g : result.md[g] = <<>>)
              + Cardinality({f \in MdFields : InvalidIn(config.metadata, result.md, f)})
        /\ config.metadata = MetadataConfig(EmptyConf) => result.value = <<>>

\* validate has yielded one warning for a missing required field and one for
\* a required field whose value is not in its allow-list.
C17_Witness ==
    /\ result.op = "validate"
    /\ config.metadata.required_fields = <<"team", "Tier">>
    /\ result.md["team"] = <<>>
    /\ result.md["Tier"] = <<"z">>
    /\ Len(result.value) = 2

\* The entries of a yielded sequence that carry the name of one job.
WarningsOf(value, name) ==
    SelectSeq(value, LAMBDA e : e[1] = name)

\* C18: validate_metadata validates only job records whose after is present:
\* a record whose after is absent yields no warning whatever the policy, and
\* every yielded warning is paired with the name of the job it concerns (the
\* entries under a job's name are the warnings of that job's own metadata).
C18_OnlyAfterPresent ==
    result.op = "validate_metadata" =>
        /\ \A i \in 1..Len(jobs) :
              IF jobs[i]._after.isNone
              THEN WarningsOf(result.value, jobs[i].name) = <<>>
              ELSE WarningsOf(result.value, jobs[i].name) =
                      [k \in 1..Len(validate(config.metadata, extract_md(jobs[i]))) |->
                          <<jobs[i].name,
                            validate(config.metadata, extract_md(jobs[i]))[k]>>]
        /\ \A k \in 1..Len(result.value) :
              \E i \in 1..Len(jobs) : jobs[i].name = result.value[k][1]

\* Under a policy that requires team, job b, whose after is absent, yielded
\* nothing, and job a, whose description holds a team outside the
\* allow-list and a Tier, yielded one warning under its own name.
C18_Witness ==
    /\ result.op = "validate_metadata"
    /\ Keys(jobs) = <<<<"b">>, <<"a">>>>
    /\ jobs[1]._after.isNone
    /\ ~jobs[1]._before.isNone
    /\ extract_md(jobs[2]) = [f \in MdFields |-> IF f = "team" THEN <<"z z">> ELSE <<"x">>]
    /\ config.metadata.required_fields = <<"team", "Tier">>
    /\ Len(result.value) = 1
    /\ result.value[1][1] = <<"a">>

\* C19: when the default plan report has been consumed to the end, every
\* changed record of views and jobs has been counted exactly once under its
\* own change type and no unchanged record has been counted, so the summary
\* is "No changes." exactly when no record is changed.
C19_CountedOncePerChangedRecord ==
    result.op = "plan_report" =>
        /\ \A t \in {CREATE, UPDATE, DELETE} :
              /\ Len(result.changecounts[t]) =
                    Cardinality({r \in KindRecords : changetype(r.xc) = t})
              /\ \A k \in 1..Len(result.changecounts[t]) :
                    \E r \in KindRecords :
                       r.xc.name = result.changecounts[t][k] /\ changetype(r.xc) = t
        /\ (result.summary = <<"No changes.">>) <=> ~detected_changes(jobs, views)

\* The calls of a command that reached the applier, up to the confirmation.
ConfirmedSteps ==
    <<[call |-> "check_auth", outcome |-> TRUE],
      [call |-> "gather", outcome |-> TRUE],
      [call |-> "detected_changes", outcome |-> TRUE],
      [call |-> "handle_plan_report", outcome |-> FALSE],
      [call |-> "confirm", outcome |-> TRUE]>>

\* C20: the apply command reaches the applier only after, in this order, the
\* authentication check passed, gather ran, changes were detected, the plan
\* was shown without the pager and the user confirmed; a remote create,
\* update or delete is issued only by the applier so reached, and a command
\* that ended on a failed authentication, on no change or on a declined
\* confirmation has issued none.
C20_ApplyOnlyAfterConfirm ==
    /\ [](result.op = "jjb_apply" =>
            /\ result.pc = "apply_plan" => result.steps = ConfirmedSteps
            /\ (\E i \in 1..Len(result.steps) : result.steps[i].call = "apply_plan") =>
                  SubSeq(result.steps, 1, 5) = ConfirmedSteps
            /\ (/\ result.pc = "exit"
                /\ Last(result.steps).call \in {"check_auth", "detected_changes", "confirm"})
                  => calls = result.calls0)
    /\ [][calls' # calls =>
            /\ result.op = "jjb_apply"
            /\ result.pc = "apply_plan"
            /\ result.steps = ConfirmedSteps
            /\ \A i \in 1..Len(calls) : calls'[i] = calls[i]]_vars

\* A confirmed command has created, updated or deleted something, and the
\* command after it ended on a declined confirmation.
C20_Witness ==
    /\ result.op = "jjb_apply"
    /\ result.pc = "exit"
    /\ Last(result.steps) = [call |-> "confirm", outcome |-> FALSE]
    /\ calls # <<>>
    /\ calls = result.calls0

CallsOfType(ct) ==
    LET prefix == IF ct = CREATE THEN "create_"
                  ELSE IF ct = UPDATE THEN "reconfig_" ELSE "delete_"
    IN Cardinality({i \in 1..Len(calls) :
                       calls[i].op \in {prefix \o "view", prefix \o "job"}})

\* C22: when a remote create, update or delete call fails during apply_plan,
\* the caller receives, together with the error, the per-type counts of the
\* calls completed before the failure.
C22_CountsSurfacedWithError ==
    (result.op = "apply_plan" /\ result.err = "JenkinsException") =>
        /\ ~result.ok
        /\ result.value # <<>>
        /\ \A ct \in {CREATE, UPDATE, DELETE} : result.value[1][ct] = CallsOfType(ct)

\* The exception of the last operation mentions the resource name: the name
\* occurs in one of its arguments.
ErrorNames(name) ==
    \E i \in 1..Len(result.args) :
       \E j \in 1..Len(result.args[i]) :
          j + Len(name) - 1 <= Len(result.args[i])
          /\ SubSeq(result.args[i], j, j + Len(name) - 1) = name

\* C23: assigning a raw representation that cannot be parsed fails with a
\* malformed-document error that identifies the name of the resource.
C23_ParseErrorNamesResource ==
    (result.op \in {"before_xml", "after_xml"} /\ ~result.ok /\ result.name # <<>>) =>
        ErrorNames(result.name)

\* The changed records of a Change Set in the dict's order, each with its kind.
RECURSIVE ChangedOf(_, _)
ChangedOf(kind, d) ==
    IF d = <<>> THEN <<>>
    ELSE (IF changetype(Head(d)) = NONE THEN <<>>
          ELSE <<[kind |-> kind, xc |-> Head(d)]>>) \o ChangedOf(kind, Tail(d))

\* The remote calls of a run in which every call succeeds and deletion is
\* carried out: one per changed record, views before jobs.
SuccessfulRunCalls ==
    LET changed == ChangedOf("view", views) \o ChangedOf("job", jobs)
    IN [i \in 1..Len(changed) |->
           LET ct == changetype(changed[i].xc)
           IN [op   |-> (IF ct = CREATE THEN "create_"
                         ELSE IF ct = UPDATE THEN "reconfig_" ELSE "delete_")
                            \o changed[i].kind,
               name |-> changed[i].xc.name,
               xml  |-> IF ct = DELETE THEN NoneV ELSE changed[i].xc._after]]

\* C24: when a remote call fails during apply_plan the error reaches the
\* caller with no return value, and the calls completed are a proper prefix,
\* in order and none repeated, of the calls of a fully successful run: no call
\* is made after the failure, none is retried, none is undone.
C24_FailureLeavesPrefix ==
    (result.op = "apply_plan" /\ result.err = "JenkinsException") =>
        /\ ~result.ok
        /\ result.value = <<>>
        /\ Len(calls) < Len(SuccessfulRunCalls)
        /\ \A i \in 1..Len(calls) : calls[i] = SuccessfulRunCalls[i]

C24_Witness ==
    /\ result.op = "apply_plan" /\ result.err = "JenkinsException"
    /\ Len(calls) = 1
    /\ Len(SuccessfulRunCalls) > 2

\* What apply_plan's loop body does with one record, taken alone and with no
\* remote failure.
AppliedAlone(r) ==
    ApplyRecord([calls |-> <<>>, attempts |-> 0,
                 changecounts |-> [c \in {CREATE, UPDATE, DELETE} |-> 0],
                 ok |-> TRUE, err |-> ""], config, r.kind, r.xc, 0)

\* C25: the 'Invalid changetype' abort of apply_plan is unreachable: the
\* change type of every record reachable through lookups and the before/after
\* setters is one of NONE, CREATE, UPDATE, DELETE, and the loop body handles
\* it in one of its four branches.
C25_InvalidChangetypeUnreachable ==
    \A r \in KindRecords :
       /\ changetype(r.xc) \in {NONE, CREATE, UPDATE, DELETE}
       /\ AppliedAlone(r).err # "RuntimeError"

C25_Witness ==
    /\ CountOf(UPDATE) > 0
    /\ CountOf(CREATE) + CountOf(DELETE) > 0
    /\ \E r \in KindRecords : changetype(r.xc) = UPDATE /\ AppliedAlone(r).calls # <<>>

\* C26: the filter that scopes a gather call is determined by that call's
\* target patterns alone: a gather with no patterns (or an empty list) uses
\* the match-all filter, even when an earlier gather on the same orchestrator
\* was given patterns.
C26_FilterFromOwnPatterns ==
    [][Gather(<<>>) =>
          /\ _jobs_filter_func' = NameRegexFilter(DotStar)
          /\ \A name \in JobNames : FilterCall(_jobs_filter_func', name)]_vars

\* C27: apply_plan changes nothing of the Change Sets: the records and their
\* before and after are as they were, detected_changes answers after the
\* apply what it answered before it, and the calls of a successful apply are
\* those the unchanged Change Sets determine, so that a second apply_plan
\* issues the same calls again.
C27_ApplyLeavesChangeSets ==
    [][result'.op = "apply_plan" =>
          /\ jobs' = jobs
          /\ views' = views
          /\ detected_changes(jobs', views') = detected_changes(jobs, views)
          /\ result'.ok => calls' = SuccessfulRunCalls
          /\ (result.op = "apply_plan" /\ result.ok /\ result'.ok) => calls' = calls]_vars

\* A successful apply_plan has issued calls and the Change Sets still hold
\* the changes it applied.
C27_Witness ==
    /\ result.op = "apply_plan" /\ result.ok
    /\ Len(calls) > 1
    /\ calls = SuccessfulRunCalls
    /\ detected_changes(jobs, views)

\* C28: an assignment to before or after that fails because the text cannot
\* be parsed leaves every record that was stored with the before and the
\* after it had, and so with the change type it had.
C28_FailedAssignmentKeepsFields ==
    [][(result'.op \in {"before_xml", "after_xml"} /\ ~result'.ok) =>
          \A ns \in RecNamespaces :
             /\ Len(ChangeSet(ns)') >= Len(ChangeSet(ns))
             /\ \A i \in 1..Len(ChangeSet(ns)) :
                   /\ ChangeSet(ns)'[i]._before = ChangeSet(ns)[i]._before
                   /\ ChangeSet(ns)'[i]._after = ChangeSet(ns)[i]._after
                   /\ changetype(ChangeSet(ns)'[i]) = changetype(ChangeSet(ns)[i])]_vars

\* A text that is no document was assigned to the after of a record holding
\* two different documents.
C28_Witness ==
    /\ result.op = "after_xml"
    /\ result.err = "ExpatError"
    /\ \E i \in 1..Len(jobs) :
          /\ jobs[i].name = result.name
          /\ changetype(jobs[i]) = UPDATE

\* The exclusion set read_jobs has built from the entries of job_list in
\* order under the filter f: the declared children of every entry that
\* passes the filter and is of an owning kind or is itself in the set.
RECURSIVE ExclusionSet(_, _, _)
ExclusionSet(f, job_list, acc) ==
    IF job_list = <<>> THEN acc
    ELSE IF /\ FilterCall(f, Head(job_list).fullname)
            /\ \/ Head(job_list)._class \in job_managing_job_classes
               \/ Head(job_list).url \in acc
         THEN ExclusionSet(f, Tail(job_list), acc \cup Range(Head(job_list).jobs))
         ELSE ExclusionSet(f, Tail(job_list), acc)

\* The exclusion set at the moment the i-th entry is enumerated.
ExcludedWhenEnumerated(i) ==
    env_jobs[i].url \in ExclusionSet(_jobs_filter_func, SubSeq(env_jobs, 1, i - 1), {})

\* C29: read_jobs never fetches an entry whose url is in the exclusion set
\* when it is enumerated, whatever its kind: an excluded entry of an owning
\* kind is skipped like any other excluded entry.
C29_ExcludedNeverFetched ==
    (result.op = "gather" /\ gathers = 1) =>
        \A i \in 1..Len(env_jobs) :
            ExcludedWhenEnumerated(i) =>
                /\ ~WasFetched(env_jobs[i])
                /\ ~HasKey(jobs, env_jobs[i].fullname)

\* C30: an entry of an owning kind that passes the filter and is not itself
\* excluded is fetched and given a before like any ordinary entry, so it is
\* classified (DELETE when nothing is generated for it); what is excluded
\* on its account is its declared children.
C30_OwnerItselfIngested ==
    (result.op = "gather" /\ result.ok /\ gathers = 1) =>
        \A i \in 1..Len(env_jobs) :
            (/\ env_jobs[i]._class \in job_managing_job_classes
             /\ FilterCall(_jobs_filter_func, env_jobs[i].fullname)
             /\ ~ExcludedWhenEnumerated(i)) =>
                /\ WasFetched(env_jobs[i])
                /\ HasKey(jobs, env_jobs[i].fullname)
                /\ \E r \in {jobs[IndexOf(jobs, env_jobs[i].fullname)]} :
                      /\ r._before = xml_normalize(env_jobs[i].config).val
                      /\ (r._after = NoneV) => changetype(r) = DELETE
                /\ Range(env_jobs[i].jobs)
                      \subseteq ExclusionSet(_jobs_filter_func, env_jobs, {})
                /\ env_jobs[i].url \notin ExclusionSet(_jobs_filter_func, env_jobs, {})

\* An owning-kind entry at the top level was fetched and is DELETE, and its
\* child, of an ordinary kind, was not fetched.
C30_Witness ==
    /\ result.op = "gather" /\ result.ok /\ gathers = 1
    /\ Len(env_jobs) > 1
    /\ env_jobs[1]._class \in job_managing_job_classes
    /\ WasFetched(env_jobs[1])
    /\ changetype(jobs[IndexOf(jobs, env_jobs[1].fullname)]) = DELETE
    /\ env_jobs[2].url \in Range(env_jobs[1].jobs)
    /\ env_jobs[2]._class \notin job_managing_job_classes
    /\ ~WasFetched(env_jobs[2])

====
